---- MODULE Spec2Model ----
(***************************************************************************)
(* Bar-level position simulation of fx-open-range: the three backtest      *)
(* engines backtest_strategy (take-profit and stop-loss),                  *)
(* backtest_strategy_no_sl (take-profit only) and                          *)
(* backtest_dual_market_open (EUR and US session opens), the statistics    *)
(* BacktestResult.get_summary_stats computes from their results, and the   *)
(* daily trade accounting, the session polls and the position closing of   *)
(* the live TradingEngine, with the retry decorator of its API utilities.  *)
(*                                                                         *)
(* Prices are integers counted in units of 0.00001 (PriceScale units make  *)
(* 1.0), pip amounts are integers counted in pips, equity is counted in    *)
(* currency units.  All input prices lie on the pip grid, so the two       *)
(* conversions pips_to_price and price_to_pips are exact.                  *)
(***************************************************************************)
EXTENDS Integers, Sequences, FiniteSets, TLC

\* ---------------------------------------------------------------- bounds
MaxBars == 2
MaxDays == 2
MaxRetries == 3

\* ------------------------------------------------------------- constants
PriceScale == 100000
PipsPerPrice == 10000
DollarsPerPip == 10
MAX_DAILY_TRADES == 2
INSTRUMENT == "EUR_USD"
POSITION_SIZE == 1000
\* Settings.MAX_POSITION_SIZE is None: no limit, kept as 0
MAX_POSITION_SIZE == 0
DUAL_MARKET_OPEN_ENABLED == TRUE
EUR_MARKET_OPEN_HOUR == 8
US_MARKET_OPEN_HOUR == 13
TRADING_START_HOUR == 22
TRADING_END_HOUR == 23

\* ----------------------------------------------------------------- inputs
Directional == {"long", "short"}
SignalValues == {"long", "short", "flat", "nan"}

NaN == <<>>
Price(p) == <<p>>
notna(x) == x # NaN
val(x) == x[1]

GridPrices == {115900, 116000, 116100}

GridRows ==
    {r \in [Open : GridPrices, High : GridPrices, Low : GridPrices, Close : GridPrices] :
        /\ r.Low <= r.Open /\ r.Low <= r.Close
        /\ r.High >= r.Open /\ r.High >= r.Close}

\* open 1.1600, high 1.1625, low 1.1595, close 1.1610
ScenarioTpRow == [Open |-> 116000, High |-> 116250, Low |-> 115950, Close |-> 116100]
\* open 1.1600, close 1.1500, take-profit never reached
ScenarioAdverseRow == [Open |-> 116000, High |-> 116050, Low |-> 115000, Close |-> 115000]

Rows == GridRows \cup {ScenarioTpRow, ScenarioAdverseRow}

\* rows of the dual engine: the two scenario rows and the grid rows without wicks
\* (Open and Close are the Low and the High) that open at 1.1600 or above
DualRows ==
    {ScenarioTpRow, ScenarioAdverseRow} \cup
    {r \in GridRows : {r.Open, r.Close} = {r.Low, r.High} /\ r.Open >= 116000}

\* reference open prices of the two sessions; NaN when the session has none
EurOpenPrices == {NaN, Price(116000)}
UsOpenPrices == {NaN, Price(116100)}

MissingSignalRow ==
    [eur_signal |-> "nan", us_signal |-> "nan", eur_open_price |-> NaN, us_open_price |-> NaN]

\* a session's reference price is missing only next to a directional signal,
\* or in a row that is missing altogether
SignalRows ==
    {sr \in [eur_signal : {"long", "short", "flat"}, us_signal : {"long", "short", "flat"},
             eur_open_price : EurOpenPrices, us_open_price : UsOpenPrices] :
        /\ sr.eur_open_price = NaN => sr.eur_signal \in Directional
        /\ sr.us_open_price = NaN => sr.us_signal \in Directional}
    \cup {MissingSignalRow}

Engines == {"backtest_strategy", "backtest_strategy_no_sl", "backtest_dual_market_open"}

TakeProfitChoices(e) == IF e = "backtest_dual_market_open" THEN {10} ELSE {10, 20}
StopLossChoices == {10}
CostChoices == {2}
InitialEquityChoices == {10000}
IndexStarts == {0, 1}


\* ------------------------------------------------------------------ state
VARIABLES
    engine,               \* which engine function this run is a call of
    pc,                   \* "loop" while iterating df.index, "done" once returned
    index_start,          \* first label of df.index (labels are consecutive)
    n_bars,               \* len(df)
    pos,                  \* number of labels of df.index already iterated
    take_profit_pips, stop_loss_pips, cost_per_trade_pips, initial_equity,
    row,                  \* df.loc[i] of the last iteration, with its label i
    signal,               \* signals.loc[i] of the last iteration (single-session engines)
    signal_row,           \* signals_df.loc[i] of the last iteration (dual engine)
    trades,
    equity_curve,
    current_equity,
    open_position,
    signals_seen,         \* history: the signal values consumed so far
    positions_opened,     \* history: how often open_position was assigned a position
    run,                  \* 1 in the first call of the engine, 2 in a repeated call
    inputs,               \* history: the bars and signals the first call consumed
    first_result,         \* the BacktestResult returned by the first call
    stats,                \* the dict returned by result.get_summary_stats()
    trades_today,         \* TradingEngine.trades_today
    last_trade_date,      \* TradingEngine.last_trade_date, NoDate for None
    eur_trade_today,      \* TradingEngine.eur_trade_today
    us_trade_today,       \* TradingEngine.us_trade_today
    today,                \* the UTC date of the clock
    broker_trades,        \* the broker's open trades of the account, counted by instrument
    orders_placed,        \* history: the market orders the broker accepted
    call,                 \* history: the last call of a TradingEngine method
    hour,                 \* the UTC hour of the clock
    ordered,              \* history: per session, the date of the last order of its poll
    retry                 \* a call of a function wrapped by retry_with_backoff

\* the live trading engine, its clock and its broker
live == <<trades_today, last_trade_date, eur_trade_today, us_trade_today, today,
          broker_trades, orders_placed, call, hour, ordered, retry>>

\* the variables outside a single call of an engine
aux == <<run, inputs, first_result, stats, live>>

vars == <<engine, pc, index_start, n_bars, pos, take_profit_pips, stop_loss_pips,
          cost_per_trade_pips, initial_equity, row, signal, signal_row, trades,
          equity_curve, current_equity, open_position, signals_seen, positions_opened,
          aux>>

params == <<engine, index_start, n_bars, take_profit_pips, stop_loss_pips,
            cost_per_trade_pips, initial_equity>>

NoRow == [i |-> -1, Date |-> -1, Open |-> 0, High |-> 0, Low |-> 0, Close |-> 0]
NoPosition == [entry_time |-> "none"]

\* df.loc[i]: the bar r at label i; the Date of a bar is its label
RowAt(i, r) ==
    [i |-> i, Date |-> i, Open |-> r.Open, High |-> r.High, Low |-> r.Low, Close |-> r.Close]

\* ------------------------------------------------------------ conversions
pips_to_price(pips) == (pips * PriceScale) \div PipsPerPrice
price_to_pips(price_diff) == (price_diff * PipsPerPrice) \div PriceScale

\* ---------------------------------------------------------- backtest.py
\* variant: take-profit is tested before stop-loss
PipsResult_TpFirst(sig, r, tp, sl, cost) ==
    IF sig = "long"
    THEN LET tp_price == r.Open + pips_to_price(tp)
             sl_price == r.Open - pips_to_price(sl)
         IN  IF r.High >= tp_price THEN tp - cost
             ELSE IF r.Low <= sl_price THEN (0 - sl) - cost
             ELSE price_to_pips(r.Close - r.Open) - cost
    ELSE LET tp_price == r.Open - pips_to_price(tp)
             sl_price == r.Open + pips_to_price(sl)
         IN  IF r.Low <= tp_price THEN tp - cost
             ELSE IF r.High >= sl_price THEN (0 - sl) - cost
             ELSE price_to_pips(r.Open - r.Close) - cost

\* variant: the cost is not charged on an end-of-day exit
PipsResult_EodNoCost(sig, r, tp, sl, cost) ==
    IF sig = "long"
    THEN LET tp_price == r.Open + pips_to_price(tp)
             sl_price == r.Open - pips_to_price(sl)
         IN  IF r.Low <= sl_price THEN (0 - sl) - cost
             ELSE IF r.High >= tp_price THEN tp - cost
             ELSE price_to_pips(r.Close - r.Open)
    ELSE LET tp_price == r.Open - pips_to_price(tp)
             sl_price == r.Open + pips_to_price(sl)
         IN  IF r.High >= sl_price THEN (0 - sl) - cost
             ELSE IF r.Low <= tp_price THEN tp - cost
             ELSE price_to_pips(r.Open - r.Close)

\* the pips of a trade of the stop-loss-bearing engine: stop-loss is tested first
PipsResult(sig, r, tp, sl, cost) ==
    IF sig = "long"
    THEN LET tp_price == r.Open + pips_to_price(tp)
             sl_price == r.Open - pips_to_price(sl)
         IN  IF r.Low <= sl_price THEN (0 - sl) - cost
             ELSE IF r.High >= tp_price THEN tp - cost
             ELSE price_to_pips(r.Close - r.Open) - cost
    ELSE LET tp_price == r.Open - pips_to_price(tp)
             sl_price == r.Open + pips_to_price(sl)
         IN  IF r.High >= sl_price THEN (0 - sl) - cost
             ELSE IF r.Low <= tp_price THEN tp - cost
             ELSE price_to_pips(r.Open - r.Close) - cost

\* the trade record appended by backtest_strategy
RecordTrade(sig, r, pips_result) ==
    [date |-> r.Date, direction |-> sig, entry_price |-> r.Open,
     exit_price |-> r.Close, pips |-> pips_result]

\* variant: the pips are added to the equity without the multiplier
EquityAfter_PipsOnly(equity, pips) == equity + pips

\* current_equity += pips * 10: the equity after a trade of the given pips
EquityAfter(equity, pips) == equity + pips * DollarsPerPip

\* variant: a point is appended only when the equity changed
AppendEquity_OnChange(curve, equity) ==
    IF curve # <<>> /\ curve[Len(curve)] = equity THEN curve ELSE Append(curve, equity)

\* equity_curve.append(current_equity): one point per iteration
AppendEquity(curve, equity) == Append(curve, equity)

\* variant: the bars labelled 0 and 1 are skipped
SkipsBar_FirstTwo(i) == i = 0 \/ i = 1

\* label 0 is skipped without reading the signal
SkipsBar(i) == i = 0

\* variant: only 'flat' opens nothing, a missing signal is taken for a direction
NoSignal_OnlyFlat(sig) == sig = "flat"

\* variant: only a missing signal opens nothing
NoSignal_OnlyMissing(sig) == sig = "nan"

\* a signal that is not 'long' or 'short' opens nothing
NoSignal(sig) == sig \notin Directional

\* the body of the loop of backtest_strategy for the bar r with the signal s
BacktestStrategyBar(r, s) ==
    LET i == index_start + pos
        rw == RowAt(i, r)
    IN  /\ row' = rw
        /\ signal' = s
        /\ signals_seen' = signals_seen \cup {s}
        /\ pos' = pos + 1
        /\ IF SkipsBar(i) \/ NoSignal(s)
           THEN /\ equity_curve' = AppendEquity(equity_curve, current_equity)
                /\ UNCHANGED <<trades, current_equity>>
           ELSE LET pips_result == PipsResult(s, rw, take_profit_pips,
                                              stop_loss_pips, cost_per_trade_pips)
                    equity == EquityAfter(current_equity, pips_result)
                IN  /\ trades' = Append(trades, RecordTrade(s, rw, pips_result))
                    /\ current_equity' = equity
                    /\ equity_curve' = AppendEquity(equity_curve, equity)
        /\ UNCHANGED <<params, pc, signal_row, open_position, positions_opened>>

\* one iteration of the loop of backtest_strategy
BacktestStrategyStep ==
    /\ engine = "backtest_strategy" /\ pc = "loop" /\ pos < n_bars
    /\ \E r \in Rows, s \in SignalValues : BacktestStrategyBar(r, s)
    /\ UNCHANGED aux

\* ---------------------------------------------------- backtest_no_sl.py
\* variant: a default stop-loss of the take-profit size closes an adverse move
NoSlExit_DefaultStop(sig, r, tp, cost) ==
    IF sig = "long"
    THEN LET tp_price == r.Open + pips_to_price(tp)
         IN  IF r.High >= tp_price
             THEN [pips |-> tp - cost, exit_price |-> tp_price, exit_reason |-> "TP"]
             ELSE IF r.Low <= r.Open - pips_to_price(tp)
             THEN [pips |-> (0 - tp) - cost, exit_price |-> r.Open - pips_to_price(tp),
                   exit_reason |-> "SL"]
             ELSE [pips |-> price_to_pips(r.Close - r.Open) - cost,
                   exit_price |-> r.Close, exit_reason |-> "EOD"]
    ELSE LET tp_price == r.Open - pips_to_price(tp)
         IN  IF r.Low <= tp_price
             THEN [pips |-> tp - cost, exit_price |-> tp_price, exit_reason |-> "TP"]
             ELSE IF r.High >= r.Open + pips_to_price(tp)
             THEN [pips |-> (0 - tp) - cost, exit_price |-> r.Open + pips_to_price(tp),
                   exit_reason |-> "SL"]
             ELSE [pips |-> price_to_pips(r.Open - r.Close) - cost,
                   exit_price |-> r.Close, exit_reason |-> "EOD"]

\* exit of a position of the no-stop-loss engine: take-profit or end of day
NoSlExit(sig, r, tp, cost) ==
    IF sig = "long"
    THEN LET tp_price == r.Open + pips_to_price(tp)
         IN  IF r.High >= tp_price
             THEN [pips |-> tp - cost, exit_price |-> tp_price, exit_reason |-> "TP"]
             ELSE [pips |-> price_to_pips(r.Close - r.Open) - cost,
                   exit_price |-> r.Close, exit_reason |-> "EOD"]
    ELSE LET tp_price == r.Open - pips_to_price(tp)
         IN  IF r.Low <= tp_price
             THEN [pips |-> tp - cost, exit_price |-> tp_price, exit_reason |-> "TP"]
             ELSE [pips |-> price_to_pips(r.Open - r.Close) - cost,
                   exit_price |-> r.Close, exit_reason |-> "EOD"]

\* the trade record appended by backtest_strategy_no_sl
RecordTradeNoSl(sig, r, x) ==
    [date |-> r.Date, direction |-> sig, entry_price |-> r.Open,
     exit_price |-> x.exit_price, exit_reason |-> x.exit_reason,
     pips |-> x.pips, tp_hit |-> (x.exit_reason = "TP")]

\* the body of the loop of backtest_strategy_no_sl for the bar r with the signal s
BacktestNoSlBar(r, s) ==
    LET i == index_start + pos
        rw == RowAt(i, r)
    IN  /\ row' = rw
        /\ signal' = s
        /\ signals_seen' = signals_seen \cup {s}
        /\ pos' = pos + 1
        /\ IF SkipsBar(i) \/ NoSignal(s)
           THEN /\ equity_curve' = AppendEquity(equity_curve, current_equity)
                /\ UNCHANGED <<trades, current_equity>>
           ELSE LET x == NoSlExit(s, rw, take_profit_pips, cost_per_trade_pips)
                    equity == EquityAfter(current_equity, x.pips)
                IN  /\ trades' = Append(trades, RecordTradeNoSl(s, rw, x))
                    /\ current_equity' = equity
                    /\ equity_curve' = AppendEquity(equity_curve, equity)
        /\ UNCHANGED <<params, pc, signal_row, open_position, positions_opened>>

\* one iteration of the loop of backtest_strategy_no_sl
BacktestNoSlStep ==
    /\ engine = "backtest_strategy_no_sl" /\ pc = "loop" /\ pos < n_bars
    /\ \E r \in Rows, s \in SignalValues : BacktestNoSlBar(r, s)
    /\ UNCHANGED aux

\* both single-session engines return right after the loop
ReturnResult ==
    /\ engine \in {"backtest_strategy", "backtest_strategy_no_sl"}
    /\ pc = "loop" /\ pos = n_bars
    /\ pc' = "done"
    /\ UNCHANGED <<params, pos, row, signal, signal_row, trades, equity_curve,
                   current_equity, open_position, signals_seen, positions_opened, aux>>

\* --------------------------------------------- backtest_dual_market.py
\* the position dict assigned to open_position
Position(dir, price, session, date, i) ==
    [direction |-> dir, entry_price |-> price, entry_time |-> session,
     entry_date |-> date, entry_index |-> i]

\* a session's signal opens a position: directional, with a reference price
SessionSignal(sig, price) == sig \in Directional /\ notna(price)

\* EUR entry: only into an empty slot
EurEntry(op, rw, sr) ==
    IF SessionSignal(sr.eur_signal, sr.eur_open_price) /\ op = NoPosition
    THEN Position(sr.eur_signal, val(sr.eur_open_price), "eur", rw.Date, rw.i)
    ELSE op

\* variant: the US entry does not look at the slot
UsEntry_NoGuard(op, rw, sr) ==
    IF SessionSignal(sr.us_signal, sr.us_open_price)
    THEN Position(sr.us_signal, val(sr.us_open_price), "us", rw.Date, rw.i)
    ELSE op

\* US entry: only into an empty slot
UsEntry(op, rw, sr) ==
    IF op = NoPosition /\ SessionSignal(sr.us_signal, sr.us_open_price)
    THEN Position(sr.us_signal, val(sr.us_open_price), "us", rw.Date, rw.i)
    ELSE op

\* the bar's High/Low reaches the take-profit price of position op
TpHit_Strict(op, rw, tp) ==
    IF op.direction = "long"
    THEN rw.High > op.entry_price + pips_to_price(tp)
    ELSE rw.Low < op.entry_price - pips_to_price(tp)

\* the bar reaches the take-profit price of the open position
TpHit(op, rw, tp) ==
    IF op.direction = "long"
    THEN rw.High >= op.entry_price + pips_to_price(tp)
    ELSE rw.Low <= op.entry_price - pips_to_price(tp)

\* the trade appended when position op is closed by take-profit
TpTrade(op, tp, cost) ==
    [date |-> op.entry_date, direction |-> op.direction, entry_price |-> op.entry_price,
     exit_price |-> IF op.direction = "long"
                    THEN op.entry_price + pips_to_price(tp)
                    ELSE op.entry_price - pips_to_price(tp),
     exit_reason |-> "TP",
     session |-> IF op.entry_time = "eur" THEN "EUR" ELSE "US",
     pips |-> tp - cost, tp_hit |-> TRUE]

\* variant: an end-of-day closure is always tagged with the EUR session
EodTrade_TaggedEur(op, close_price, cost) ==
    [date |-> op.entry_date, direction |-> op.direction, entry_price |-> op.entry_price,
     exit_price |-> close_price,
     exit_reason |-> "EOD",
     session |-> "EUR",
     pips |-> IF op.direction = "long"
              THEN price_to_pips(close_price - op.entry_price) - cost
              ELSE price_to_pips(op.entry_price - close_price) - cost,
     tp_hit |-> FALSE]

\* the trade appended when position op is closed at close_price
EodTrade(op, close_price, cost) ==
    [date |-> op.entry_date, direction |-> op.direction, entry_price |-> op.entry_price,
     exit_price |-> close_price,
     exit_reason |-> "EOD",
     session |-> IF op.entry_time = "eur" THEN "EUR" ELSE "US",
     pips |-> IF op.direction = "long"
              THEN price_to_pips(close_price - op.entry_price) - cost
              ELSE price_to_pips(op.entry_price - close_price) - cost,
     tp_hit |-> FALSE]

\* variant: the take-profit trade is put in front of the trade list
SessionTpCheck_Prepends(session, st, rw, tp, cost) ==
    IF st.op # NoPosition /\ st.op.entry_time = session /\ TpHit(st.op, rw, tp)
    THEN [op |-> NoPosition,
          tr |-> <<TpTrade(st.op, tp, cost)>> \o st.tr,
          eq |-> EquityAfter(st.eq, tp - cost)]
    ELSE st

\* take-profit check of a position entered in the given session:
\* the state <<open_position, trades, current_equity>> after the check
SessionTpCheck(session, st, rw, tp, cost) ==
    IF st.op # NoPosition /\ st.op.entry_time = session /\ TpHit(st.op, rw, tp)
    THEN [op |-> NoPosition,
          tr |-> Append(st.tr, TpTrade(st.op, tp, cost)),
          eq |-> EquityAfter(st.eq, tp - cost)]
    ELSE st

\* variant: the closure records the trade but leaves the position in the slot
EodClose_KeepsPosition(st, close_price, cost) ==
    IF st.op # NoPosition
    THEN LET t == EodTrade(st.op, close_price, cost)
         IN  [op |-> st.op,
              tr |-> Append(st.tr, t),
              eq |-> EquityAfter(st.eq, t.pips)]
    ELSE st

\* closure of whatever position is still open at close_price
EodClose(st, close_price, cost) ==
    IF st.op # NoPosition
    THEN LET t == EodTrade(st.op, close_price, cost)
         IN  [op |-> NoPosition,
              tr |-> Append(st.tr, t),
              eq |-> EquityAfter(st.eq, t.pips)]
    ELSE st

\* variant: the US entry is tried before the EUR take-profit check
DualBar_UsBeforeTpCheck(st, rw, sr, tp, cost) ==
    LET s1 == [st EXCEPT !.op = EurEntry(st.op, rw, sr)]
        s2 == [s1 EXCEPT !.op = UsEntry(s1.op, rw, sr)]
        s3 == SessionTpCheck("eur", s2, rw, tp, cost)
        s4 == SessionTpCheck("us", s3, rw, tp, cost)
    IN  EodClose(s4, rw.Close, cost)

\* variant: the bar ends without the end-of-day closure
DualBar_NoEodClose(st, rw, sr, tp, cost) ==
    LET s1 == [st EXCEPT !.op = EurEntry(st.op, rw, sr)]
        s2 == SessionTpCheck("eur", s1, rw, tp, cost)
        s3 == [s2 EXCEPT !.op = UsEntry(s2.op, rw, sr)]
    IN  SessionTpCheck("us", s3, rw, tp, cost)

\* the body of the loop for a bar that is not skipped
DualBar(st, rw, sr, tp, cost) ==
    LET s1 == [st EXCEPT !.op = EurEntry(st.op, rw, sr)]
        s2 == SessionTpCheck("eur", s1, rw, tp, cost)
        s3 == [s2 EXCEPT !.op = UsEntry(s2.op, rw, sr)]
        s4 == SessionTpCheck("us", s3, rw, tp, cost)
    IN  EodClose(s4, rw.Close, cost)

\* the number of assignments of a position to open_position within DualBar
DualBarOpened(st, rw, sr, tp, cost) ==
    LET p1 == EurEntry(st.op, rw, sr)
        s2 == SessionTpCheck("eur", [st EXCEPT !.op = p1], rw, tp, cost)
        p3 == UsEntry(s2.op, rw, sr)
    IN  (IF p1 # st.op THEN 1 ELSE 0) + (IF p3 # s2.op THEN 1 ELSE 0)

\* the body of the loop of backtest_dual_market_open for the bar r with the
\* signal row sr
BacktestDualBar(r, sr) ==
    LET i == index_start + pos
        rw == RowAt(i, r)
        st == [op |-> open_position, tr |-> trades, eq |-> current_equity]
    IN  /\ row' = rw
        /\ signal_row' = sr
        /\ signals_seen' = signals_seen \cup {sr.eur_signal, sr.us_signal}
        /\ pos' = pos + 1
        /\ IF SkipsBar(i)
           THEN /\ equity_curve' = AppendEquity(equity_curve, current_equity)
                /\ UNCHANGED <<trades, current_equity, open_position, positions_opened>>
           ELSE LET out == DualBar(st, rw, sr, take_profit_pips, cost_per_trade_pips)
                IN  /\ trades' = out.tr
                    /\ current_equity' = out.eq
                    /\ open_position' = out.op
                    /\ equity_curve' = AppendEquity(equity_curve, out.eq)
                    /\ positions_opened' = positions_opened
                          + DualBarOpened(st, rw, sr, take_profit_pips, cost_per_trade_pips)
        /\ UNCHANGED <<params, pc, signal>>

\* one iteration of the loop of backtest_dual_market_open
BacktestDualStep ==
    /\ engine = "backtest_dual_market_open" /\ pc = "loop" /\ pos < n_bars
    /\ \E r \in DualRows, sr \in SignalRows : BacktestDualBar(r, sr)
    /\ UNCHANGED aux

\* after the loop: a position still open is closed at the last bar's close,
\* the last equity point is overwritten, and the result is returned
ReturnDualResult ==
    /\ engine = "backtest_dual_market_open" /\ pc = "loop" /\ pos = n_bars
    /\ LET st == [op |-> open_position, tr |-> trades, eq |-> current_equity]
           out == EodClose(st, row.Close, cost_per_trade_pips)
       IN  /\ trades' = out.tr
           /\ current_equity' = out.eq
           /\ open_position' = out.op
           /\ equity_curve' = IF open_position # NoPosition
                              THEN [equity_curve EXCEPT ![Len(equity_curve)] = out.eq]
                              ELSE equity_curve
    /\ pc' = "done"
    /\ UNCHANGED <<params, pos, row, signal, signal_row, signals_seen, positions_opened, aux>>

\* ---------------------------------------------------------- specification
NoSignalRow == [eur_signal |-> "none", us_signal |-> "none",
                eur_open_price |-> NaN, us_open_price |-> NaN]

NoResult == [trades |-> <<>>, equity_curve |-> <<>>, returned |-> FALSE]
NoStats == [computed |-> FALSE]

\* the state at the top of the loop of a call: the locals the engine initialises
\* before the loop and the history of the call
CallStarts ==
    /\ pc = "loop"
    /\ pos = 0
    /\ row = NoRow
    /\ signal = "none"
    /\ signal_row = NoSignalRow
    /\ trades = <<>>
    /\ equity_curve = <<>>
    /\ current_equity = initial_equity
    /\ open_position = NoPosition
    /\ signals_seen = {}
    /\ positions_opened = 0

\* nothing outside the call has happened
\* TradingEngine.__init__, the clock on its first day, a broker without trades
NoDate == 0
NoCall == [op |-> "none"]
Instruments == {"EUR_USD", "USD_JPY"}

LiveStarts ==
    /\ trades_today = 0
    /\ last_trade_date = NoDate
    /\ eur_trade_today = FALSE
    /\ us_trade_today = FALSE
    /\ today = 1
    /\ broker_trades = [ins \in Instruments |-> 0]
    /\ orders_placed = 0
    /\ call = NoCall
    /\ hour = 0
    /\ ordered = [m \in {"eur", "us"} |-> NoDate]
    /\ retry = [status |-> "idle"]

AuxStarts ==
    /\ run = 1
    /\ inputs = <<>>
    /\ first_result = NoResult
    /\ stats = NoStats
    /\ LiveStarts

Init ==
    /\ engine \in Engines
    /\ index_start \in IndexStarts
    /\ n_bars \in 0..MaxBars
    /\ take_profit_pips \in TakeProfitChoices(engine)
    /\ stop_loss_pips \in StopLossChoices
    /\ cost_per_trade_pips \in CostChoices
    /\ initial_equity \in InitialEquityChoices
    /\ CallStarts
    /\ AuxStarts

Next ==
    \/ BacktestStrategyStep
    \/ BacktestNoSlStep
    \/ BacktestDualStep
    \/ ReturnResult
    \/ ReturnDualResult

Spec == Init /\ [][Next]_vars

\* ------------------------------------------------------- claim vocabulary
\* the trades recorded for the bar of the last iteration
BarTrades == SelectSeq(trades, LAMBDA t : t.date = row.Date)

\* some bar has been iterated, so row and signal hold a bar's inputs
Iterated == pos >= 1

SingleSession == engine \in {"backtest_strategy", "backtest_strategy_no_sl"}
Dual == engine = "backtest_dual_market_open"

\* the bar reaches the price that lies `pips` in favour of a position entered at `entry`
ReachesProfit(dir, entry, pips) ==
    IF dir = "long" THEN row.High >= entry + pips_to_price(pips)
                    ELSE row.Low <= entry - pips_to_price(pips)

\* the bar reaches the price that lies `pips` against a position entered at `entry`
ReachesLoss(dir, entry, pips) ==
    IF dir = "long" THEN row.Low <= entry - pips_to_price(pips)
                    ELSE row.High >= entry + pips_to_price(pips)

\* signed price difference of a position in pips: long close - entry, short entry - close
SignedPips(dir, entry, close) ==
    IF dir = "long" THEN price_to_pips(close - entry) ELSE price_to_pips(entry - close)

\* the price that lies `pips` in favour of a position entered at `entry`
ProfitPrice(dir, entry, pips) ==
    IF dir = "long" THEN entry + pips_to_price(pips) ELSE entry - pips_to_price(pips)

\* -------------------------------------------------------------------- C1
\* C1: in each engine the equity curve holds exactly one point per bar iterated,
\* so the returned curve has exactly len(df) points, whether the bars traded or not.
C1_EquityCurveLength ==
    /\ Len(equity_curve) = pos
    /\ pc = "done" => Len(equity_curve) = n_bars

\* a returned dual run of two bars: one without a trade, one with two trades
C1_Witness ==
    /\ pc = "done" /\ Dual /\ n_bars = 2
    /\ Len(trades) = 2 /\ Len(BarTrades) = 2

\* -------------------------------------------------------------------- C2
\* C2: in backtest_strategy a traded bar that reaches both the stop-loss and the
\* take-profit threshold is resolved as a stop-loss: pips = -stop_loss_pips - cost.
C2_BothReached ==
    /\ engine = "backtest_strategy" /\ Iterated /\ BarTrades # <<>>
    /\ ReachesLoss(signal, row.Open, stop_loss_pips)
    /\ ReachesProfit(signal, row.Open, take_profit_pips)

C2_StopLossFirst ==
    C2_BothReached =>
        /\ Len(BarTrades) = 1
        /\ BarTrades[1].pips = (0 - stop_loss_pips) - cost_per_trade_pips

C2_Witness == C2_BothReached /\ signal = "short"

\* -------------------------------------------------------------------- C3
\* the EUR session opened a position on the bar: the bar was not skipped and the
\* EUR signal is directional with a reference price
EurPositionOpened ==
    /\ Dual /\ Iterated /\ row.i # 0
    /\ SessionSignal(signal_row.eur_signal, signal_row.eur_open_price)

EurTpReached ==
    ReachesProfit(signal_row.eur_signal, val(signal_row.eur_open_price), take_profit_pips)

\* C3: on a bar where the EUR session opened a position whose take-profit the bar
\* does not reach and the US signal is directional too, exactly one trade is
\* recorded for the bar: the EUR trade, closed EOD; the US signal opens nothing.
C3_UsSkippedWhileEurOpen ==
    (EurPositionOpened /\ ~EurTpReached /\ signal_row.us_signal \in Directional) =>
        /\ Len(BarTrades) = 1
        /\ BarTrades[1].session = "EUR"
        /\ BarTrades[1].exit_reason = "EOD"
        /\ BarTrades[1].direction = signal_row.eur_signal

C3_Witness ==
    /\ EurPositionOpened /\ ~EurTpReached
    /\ SessionSignal(signal_row.us_signal, signal_row.us_open_price)
    /\ signal_row.us_signal # signal_row.eur_signal
    /\ Len(BarTrades) = 1

\* -------------------------------------------------------------------- C4
\* C4: on a bar where the EUR session opened a position whose take-profit the bar
\* reaches and the US signal is directional with a reference price, exactly two
\* trades are recorded for the bar: first EUR closed TP, then US closed TP or EOD.
C4_TwoTradesAfterEurTp ==
    (/\ EurPositionOpened /\ EurTpReached
     /\ SessionSignal(signal_row.us_signal, signal_row.us_open_price)) =>
        /\ Len(BarTrades) = 2
        /\ BarTrades[1].session = "EUR" /\ BarTrades[1].exit_reason = "TP"
        /\ BarTrades[2].session = "US" /\ BarTrades[2].exit_reason \in {"TP", "EOD"}

C4_Witness ==
    /\ EurPositionOpened /\ EurTpReached
    /\ SessionSignal(signal_row.us_signal, signal_row.us_open_price)
    /\ Len(BarTrades) = 2 /\ BarTrades[2].exit_reason = "EOD"

\* -------------------------------------------------------------------- C5
\* C5: as long as every signal consumed is 'flat', no trade is recorded and every
\* equity point equals initial_equity, in each engine.
C5_FlatNoOp ==
    signals_seen \subseteq {"flat"} =>
        /\ trades = <<>>
        /\ \A k \in 1..Len(equity_curve) : equity_curve[k] = initial_equity

C5_Witness ==
    /\ pc = "done" /\ n_bars = 2 /\ index_start = 1
    /\ signals_seen = {"flat"} /\ Len(equity_curve) = 2

\* -------------------------------------------------------------------- C6
\* C6: in the dual engine no position is open between two bars nor when the run
\* has returned, every position opened has become exactly one trade, and a trade
\* closed EOD exits at the close of the bar being processed.
C6_NoPositionLeftOpen ==
    Dual =>
        /\ open_position = NoPosition
        /\ Len(trades) = positions_opened
        /\ \A k \in 1..Len(BarTrades) :
              BarTrades[k].exit_reason = "EOD" => BarTrades[k].exit_price = row.Close

C6_Witness ==
    /\ Dual /\ pc = "done" /\ positions_opened = 2
    /\ trades[Len(trades)].exit_reason = "EOD"
    /\ trades[Len(trades)].date = row.Date

\* -------------------------------------------------------------------- C7
\* the pips the claim assigns to an exit
C7_TpPips == take_profit_pips - cost_per_trade_pips
C7_SlPips == (0 - stop_loss_pips) - cost_per_trade_pips
C7_EodPips(t) == SignedPips(t.direction, t.entry_price, row.Close) - cost_per_trade_pips

\* C7: the pips of every trade have the cost subtracted and are fixed by the exit:
\* take-profit gives take_profit_pips - cost, stop-loss gives -stop_loss_pips - cost,
\* end of day gives the signed close-minus-entry difference in pips minus cost.
\* backtest_strategy records no exit reason: its exit is the first threshold of
\* stop-loss, take-profit that the bar reaches, end of day if it reaches neither.
C7_PipsFixedByExit ==
    /\ (engine = "backtest_strategy" /\ Iterated) =>
          \A k \in 1..Len(BarTrades) :
             LET t == BarTrades[k]
             IN  t.pips =
                   IF ReachesLoss(t.direction, t.entry_price, stop_loss_pips) THEN C7_SlPips
                   ELSE IF ReachesProfit(t.direction, t.entry_price, take_profit_pips)
                        THEN C7_TpPips
                        ELSE C7_EodPips(t)
    /\ (engine # "backtest_strategy" /\ Iterated) =>
          \A k \in 1..Len(BarTrades) :
             LET t == BarTrades[k]
             IN  /\ t.exit_reason \in {"TP", "EOD"}
                 /\ t.exit_reason = "TP" => t.pips = C7_TpPips
                 /\ t.exit_reason = "EOD" => t.pips = C7_EodPips(t)

\* a short trade of backtest_strategy closed at end of day with a price move
C7_Witness ==
    /\ engine = "backtest_strategy" /\ Iterated /\ Len(BarTrades) = 1
    /\ signal = "short" /\ row.Close # row.Open
    /\ ~ReachesLoss(signal, row.Open, stop_loss_pips)
    /\ ~ReachesProfit(signal, row.Open, take_profit_pips)

\* -------------------------------------------------------------------- C8
\* C8: in backtest_strategy_no_sl every trade has exit_reason TP or EOD, tp_hit is
\* true exactly for TP, and a trade whose take-profit price the bar does not reach
\* is EOD with pips = signed close-minus-entry difference minus cost, however far
\* the bar moved against it.
C8_NeverStoppedOut ==
    engine = "backtest_strategy_no_sl" =>
        /\ \A k \in 1..Len(trades) :
              /\ trades[k].exit_reason \in {"TP", "EOD"}
              /\ trades[k].tp_hit <=> trades[k].exit_reason = "TP"
        /\ \A k \in 1..Len(BarTrades) :
              LET t == BarTrades[k]
              IN  ~ReachesProfit(t.direction, t.entry_price, take_profit_pips) =>
                     /\ t.exit_reason = "EOD"
                     /\ t.pips = SignedPips(t.direction, row.Open, row.Close)
                                   - cost_per_trade_pips

\* entry 1.1600, close 1.1500, long: a loss of 100 pips plus cost
C8_Witness ==
    /\ engine = "backtest_strategy_no_sl" /\ Len(BarTrades) = 1
    /\ row.Open = 116000 /\ row.Close = 115000 /\ signal = "long"
    /\ BarTrades[1].exit_reason = "EOD"
    /\ BarTrades[1].pips = (0 - 100) - cost_per_trade_pips
    /\ 100 + cost_per_trade_pips > take_profit_pips

\* -------------------------------------------------------------------- C9
\* C9: a trade closed by take-profit or stop-loss records the theoretical TP or SL
\* price as its exit price and only an end-of-day trade records the bar's close,
\* in backtest_strategy as well as in the other two engines.
C9_TheoreticalExitPrice ==
    /\ (engine = "backtest_strategy" /\ Iterated) =>
          \A k \in 1..Len(BarTrades) :
             LET t == BarTrades[k]
             IN  t.exit_price =
                   IF ReachesLoss(t.direction, t.entry_price, stop_loss_pips)
                   THEN ProfitPrice(t.direction, t.entry_price, 0 - stop_loss_pips)
                   ELSE IF ReachesProfit(t.direction, t.entry_price, take_profit_pips)
                        THEN ProfitPrice(t.direction, t.entry_price, take_profit_pips)
                        ELSE row.Close
    /\ (engine # "backtest_strategy" /\ Iterated) =>
          \A k \in 1..Len(BarTrades) :
             LET t == BarTrades[k]
             IN  t.exit_price =
                   IF t.exit_reason = "TP"
                   THEN ProfitPrice(t.direction, t.entry_price, take_profit_pips)
                   ELSE row.Close

\* ------------------------------------------------------------------- C10
\* the one-bar series {open 1.1600, high 1.1625, low 1.1595, close 1.1610}, signal
\* long, take-profit 10 pips, cost 2 pips, run through backtest_strategy_no_sl
C10_Scenario ==
    /\ engine = "backtest_strategy_no_sl" /\ pc = "done" /\ n_bars = 1
    /\ row = RowAt(row.i, ScenarioTpRow) /\ signal = "long"
    /\ take_profit_pips = 10 /\ cost_per_trade_pips = 2

C10_OneTpTrade ==
    /\ Len(trades) = 1
    /\ trades[1].exit_reason = "TP" /\ trades[1].pips = 8
    /\ trades[1].entry_price = row.Open
    /\ equity_curve[Len(equity_curve)] = initial_equity + 80

\* C10 as stated: a directional signal on any bar, the first included, opens a
\* position at the bar's open and yields a trade; the one-bar scenario yields one
\* TP trade of 8 pips and the equity rises by 80.
C10_AnyBarTrades ==
    /\ (SingleSession /\ Iterated /\ signal \in Directional) =>
          /\ Len(BarTrades) = 1
          /\ BarTrades[1].entry_price = row.Open
          /\ BarTrades[1].direction = signal
    /\ C10_Scenario => C10_OneTpTrade

\* C10 amended: a directional signal on any bar whose index label is not 0 opens a
\* position at the bar's open and yields a trade, and the bar labelled 0 is never
\* traded; the one-bar scenario yields one TP trade of 8 pips and an equity rise of
\* 80 when its bar is not labelled 0, and no trade when it is.
C10_AnyBarButLabelZeroTrades ==
    /\ (SingleSession /\ Iterated /\ signal \in Directional /\ row.i # 0) =>
          /\ Len(BarTrades) = 1
          /\ BarTrades[1].entry_price = row.Open
          /\ BarTrades[1].direction = signal
    /\ (SingleSession /\ Iterated /\ row.i = 0) => BarTrades = <<>>
    /\ (C10_Scenario /\ row.i # 0) => C10_OneTpTrade
    /\ (C10_Scenario /\ row.i = 0) =>
          trades = <<>> /\ equity_curve = <<initial_equity>>

C10_Witness == C10_Scenario /\ row.i # 0 /\ C10_OneTpTrade

\* ------------------------------------------------------------------- C15
\* the bar of the last iteration had no entry in the signal input: after
\* reindex(df.index) its signal row holds NaN in every column
C15_Unmatched ==
    Iterated /\ (IF Dual THEN signal_row = MissingSignalRow ELSE signal = "nan")

\* the equity before the bar of the last iteration
PreviousEquity == IF pos = 1 THEN initial_equity ELSE equity_curve[pos - 1]

\* C15: a bar without an entry in the signal input is handled like a flat bar: no
\* trade is recorded for it and its equity point repeats the previous equity; the
\* run goes on and the returned curve still holds one point for every bar.
C15_UnmatchedBarIsFlat ==
    /\ C15_Unmatched =>
          /\ BarTrades = <<>>
          /\ Len(equity_curve) = pos
          /\ equity_curve[pos] = PreviousEquity
    /\ (pc = "done" /\ "nan" \in signals_seen) => Len(equity_curve) = n_bars

\* a returned run of two bars: the first traded, the second, not labelled 0, unmatched
C15_Witness ==
    /\ C15_Unmatched /\ pc = "done" /\ n_bars = 2 /\ row.i = 2
    /\ Len(trades) >= 1 /\ equity_curve[2] = equity_curve[1]
    /\ equity_curve[2] # initial_equity

\* ------------------------------------------------------------------- C16
\* BacktestResult(trades_df, equity_series): the attributes of the returned object
BacktestResult(tr, curve) == [trades |-> tr, equity_curve |-> curve]

\* C16: whenever a bar had no matching signal, the returned BacktestResult carries
\* a warning about the misalignment in its metadata.
C16_WarningInMetadata ==
    (pc = "done" /\ "nan" \in signals_seen) =>
        "metadata" \in DOMAIN BacktestResult(trades, equity_curve)

\* ------------------------------------------------------------------- C17
RECURSIVE SumPips(_)
\* trades['pips'].sum()
SumPips(tr) == IF tr = <<>> THEN 0 ELSE tr[1].pips + SumPips(Tail(tr))

\* the trades closed on the bars up to label i; a trade closes on the bar it opened on
TradesThrough(i) == SelectSeq(trades, LAMBDA t : t.date <= i)

\* the trades closed on the bar labelled i
TradesOn(i) == SelectSeq(trades, LAMBDA t : t.date = i)

\* the label of the k-th bar
Label(k) == index_start + k - 1

\* the equity curve is the running sum of the trade results
C17_RunningSumHolds ==
    \A k \in 1..Len(equity_curve) :
       equity_curve[k] = initial_equity + 10 * SumPips(TradesThrough(Label(k)))

\* a bar without a trade repeats the previous value
C17_NoTradeRepeats ==
    \A k \in 2..Len(equity_curve) :
       TradesOn(Label(k)) = <<>> => equity_curve[k] = equity_curve[k - 1]

MalformedRow == [Open |-> 116000, High |-> 115900, Low |-> 116100, Close |-> 116000]

AnyRows == {ScenarioTpRow, ScenarioAdverseRow, MalformedRow}
AnyTakeProfitChoices == {0 - 10, 0, 10}

InitAnyConfig ==
    /\ engine \in {"backtest_strategy", "backtest_strategy_no_sl"}
    /\ index_start \in IndexStarts
    /\ n_bars \in 0..MaxBars
    /\ take_profit_pips \in AnyTakeProfitChoices
    /\ stop_loss_pips \in StopLossChoices
    /\ cost_per_trade_pips \in CostChoices
    /\ initial_equity \in InitialEquityChoices
    /\ CallStarts
    /\ AuxStarts

\* one iteration of the loop of backtest_strategy, any bar
BacktestStrategyAnyStep ==
    /\ engine = "backtest_strategy" /\ pc = "loop" /\ pos < n_bars
    /\ \E r \in AnyRows, s \in SignalValues : BacktestStrategyBar(r, s)
    /\ UNCHANGED aux

\* one iteration of the loop of backtest_strategy_no_sl, any bar
BacktestNoSlAnyStep ==
    /\ engine = "backtest_strategy_no_sl" /\ pc = "loop" /\ pos < n_bars
    /\ \E r \in AnyRows, s \in SignalValues : BacktestNoSlBar(r, s)
    /\ UNCHANGED aux

NextAnyConfig ==
    \/ BacktestStrategyAnyStep
    \/ BacktestNoSlAnyStep
    \/ ReturnResult

SpecAnyConfig == InitAnyConfig /\ [][NextAnyConfig]_vars

\* the call was made with a take-profit that is not positive, or the bar of the
\* last iteration has its high below its low
C14_Invalid ==
    \/ take_profit_pips <= 0
    \/ Iterated /\ row.High < row.Low

\* C14: a call with take_profit_pips <= 0 or with a bar whose high is below its
\* low is rejected before any bar is processed: no trade is recorded, no equity
\* point is produced and no result is returned.
C14_InvalidRejected ==
    C14_Invalid => trades = <<>> /\ equity_curve = <<>> /\ pc # "done"

\* ------------------------------------------- backtest.py: get_summary_stats
\* Numbers that come out of a division are kept exact as fractions in lowest terms
\* with a positive denominator.  A float division by zero does not raise in numpy:
\* it yields inf, -inf or nan, kept here as 1/0, -1/0 and 0/0.
RECURSIVE GCD(_, _)
GCD(a, b) == IF b = 0 THEN a ELSE GCD(b, a % b)

Abs(x) == IF x < 0 THEN 0 - x ELSE x
Sign(x) == IF x < 0 THEN 0 - 1 ELSE IF x > 0 THEN 1 ELSE 0

\* n / d
Frac(n, d) ==
    IF d = 0 THEN [num |-> Sign(n), den |-> 0]
    ELSE LET g == GCD(Abs(n), Abs(d))
         IN  [num |-> (Sign(d) * n) \div g, den |-> Abs(d) \div g]

Zero == Frac(0, 1)
Inf == [num |-> 1, den |-> 0]
Finite(x) == x.den # 0

\* x * (n / d) for a fraction x
FracTimes(x, n, d) == Frac(x.num * n, x.den * d)

\* trades[trades['pips'] > 0] and trades[trades['pips'] <= 0]
winning_trades(tr) == SelectSeq(tr, LAMBDA t : t.pips > 0)
losing_trades(tr) == SelectSeq(tr, LAMBDA t : t.pips <= 0)

\* (trades['pips'] > 0).sum() / len(trades) * 100
win_rate(tr) == Frac(Len(winning_trades(tr)) * 100, Len(tr))

\* variant: without losses the profit factor is reported as 0
profit_factor_NoLossIsZero(tr) ==
    IF Len(losing_trades(tr)) > 0 /\ SumPips(losing_trades(tr)) # 0
    THEN Frac(Abs(SumPips(winning_trades(tr))), Abs(SumPips(losing_trades(tr))))
    ELSE Zero

\* abs(wins.sum() / losses.sum()) when the losing pips do not sum to 0, else np.inf
profit_factor(tr) ==
    IF Len(losing_trades(tr)) > 0 /\ SumPips(losing_trades(tr)) # 0
    THEN Frac(Abs(SumPips(winning_trades(tr))), Abs(SumPips(losing_trades(tr))))
    ELSE Inf

\* np.maximum.accumulate(equity)
running_max(equity) ==
    [k \in 1..Len(equity) |->
        CHOOSE m \in {equity[j] : j \in 1..k} : \A j \in 1..k : equity[j] <= m]

\* equity - running_max
drawdown(equity) == [k \in 1..Len(equity) |-> equity[k] - running_max(equity)[k]]

\* drawdown.min(), of a non-empty array
SeqMin(a) == CHOOSE m \in {a[j] : j \in 1..Len(a)} : \A j \in 1..Len(a) : m <= a[j]

\* np.argmin(drawdown): the first position of the minimum
argmin(a) == CHOOSE k \in 1..Len(a) : a[k] = SeqMin(a) /\ \A j \in 1..(k - 1) : a[j] # SeqMin(a)

\* the running maximum at the position of the deepest drawdown
PeakAtMaxDrawdown(equity) == running_max(equity)[argmin(drawdown(equity))]

\* abs(drawdown.min()): the deepest decline of the equity below its running maximum
max_drawdown_pips(equity) == Abs(SeqMin(drawdown(equity)))

\* variant: the percentage is computed whatever the peak is
max_drawdown_pct_Unguarded(equity) ==
    Frac(max_drawdown_pips(equity) * 100, PeakAtMaxDrawdown(equity))

\* (max_drawdown_pips / peak) * 100 if the peak is positive, else 0
max_drawdown_pct(equity) ==
    IF PeakAtMaxDrawdown(equity) > 0
    THEN Frac(max_drawdown_pips(equity) * 100, PeakAtMaxDrawdown(equity))
    ELSE Zero

\* the branch of get_summary_stats for a result without trades
StatsNoTrades(equity) ==
    LET declined == Len(equity) > 0 /\ SeqMin(drawdown(equity)) < 0
        mdd == IF declined THEN max_drawdown_pips(equity) ELSE 0
    IN  [computed |-> TRUE, raised |-> FALSE,
         total_trades |-> 0, long_trades |-> 0, short_trades |-> 0,
         total_pips |-> 0, avg_pips_per_trade |-> Zero, avg_pips_per_day |-> Zero,
         win_rate |-> Zero, avg_win |-> Zero, avg_loss |-> Zero,
         profit_factor |-> Zero,
         max_drawdown_pips |-> mdd,
         max_drawdown_pct |-> IF declined /\ PeakAtMaxDrawdown(equity) > 0
                              THEN Frac(mdd * 100, PeakAtMaxDrawdown(equity))
                              ELSE Zero,
         sharpe |-> [sign |-> 0, square |-> Zero],
         sharpe_annualized |-> [sign |-> 0, square |-> Zero]]

\* n(n-1) times the sample variance of the pips: n * sum(x^2) - sum(x)^2
RECURSIVE SumSquares(_)
SumSquares(tr) == IF tr = <<>> THEN 0 ELSE tr[1].pips * tr[1].pips + SumSquares(Tail(tr))
ScaledVariance(tr) == Len(tr) * SumSquares(tr) - SumPips(tr) * SumPips(tr)

\* (mean / std) * sqrt(n) for more than one trade of positive std, else 0.0; kept
\* as its sign and its square: mean^2 * n / variance = sum^2 * (n-1) / (n*sum(x^2) - sum^2)
sharpe(tr) ==
    IF Len(tr) > 1 /\ ScaledVariance(tr) > 0
    THEN [sign |-> Sign(SumPips(tr)),
          square |-> Frac(SumPips(tr) * SumPips(tr) * (Len(tr) - 1), ScaledVariance(tr))]
    ELSE [sign |-> 0, square |-> Zero]

\* sharpe * sqrt(252 / len(equity_curve)) if the curve is not empty, else 0.0
sharpe_annualized(tr, equity) ==
    IF Len(equity) > 0
    THEN [sign |-> sharpe(tr).sign, square |-> FracTimes(sharpe(tr).square, 252, Len(equity))]
    ELSE [sign |-> 0, square |-> Zero]

\* the branch of get_summary_stats for a result with trades; drawdown.min() of an
\* empty curve raises ValueError
StatsWithTrades(tr, equity) ==
    IF Len(equity) = 0
    THEN [computed |-> TRUE, raised |-> TRUE]
    ELSE [computed |-> TRUE, raised |-> FALSE,
          total_trades |-> Len(tr),
          long_trades |-> Len(SelectSeq(tr, LAMBDA t : t.direction = "long")),
          short_trades |-> Len(SelectSeq(tr, LAMBDA t : t.direction = "short")),
          total_pips |-> SumPips(tr),
          avg_pips_per_trade |-> Frac(SumPips(tr), Len(tr)),
          avg_pips_per_day |-> IF Len(equity) > 0 THEN Frac(SumPips(tr), Len(equity)) ELSE Zero,
          win_rate |-> win_rate(tr),
          avg_win |-> IF Len(winning_trades(tr)) > 0
                      THEN Frac(SumPips(winning_trades(tr)), Len(winning_trades(tr)))
                      ELSE Zero,
          avg_loss |-> IF Len(losing_trades(tr)) > 0
                       THEN Frac(SumPips(losing_trades(tr)), Len(losing_trades(tr)))
                       ELSE Zero,
          profit_factor |-> profit_factor(tr),
          max_drawdown_pips |-> max_drawdown_pips(equity),
          max_drawdown_pct |-> max_drawdown_pct(equity),
          sharpe |-> sharpe(tr),
          sharpe_annualized |-> sharpe_annualized(tr, equity)]

\* BacktestResult.get_summary_stats
get_summary_stats(result) ==
    IF Len(result.trades) = 0
    THEN StatsNoTrades(result.equity_curve)
    ELSE StatsWithTrades(result.trades, result.equity_curve)

\* ------------------------------------------- runs followed by their statistics
\* open 1.1600, high 1.1605, low 1.1595, close 1.1602: a long position closed at
\* end of day gains 2 pips, exactly the cost
BreakEvenRow == [Open |-> 116000, High |-> 116050, Low |-> 115950, Close |-> 116020]

StatsRows == {ScenarioTpRow, ScenarioAdverseRow, BreakEvenRow}
StatsSignals == {"long", "short", "flat"}
StatsSignalRows ==
    {[eur_signal |-> "long", us_signal |-> "long",
      eur_open_price |-> Price(116000), us_open_price |-> Price(116100)],
     [eur_signal |-> "long", us_signal |-> "flat",
      eur_open_price |-> Price(116000), us_open_price |-> Price(116100)],
     [eur_signal |-> "short", us_signal |-> "long",
      eur_open_price |-> Price(116000), us_open_price |-> Price(116100)],
     [eur_signal |-> "flat", us_signal |-> "flat",
      eur_open_price |-> Price(116000), us_open_price |-> Price(116100)]}
StatsInitialEquityChoices == {0, 10000}

InitStats ==
    /\ engine \in Engines
    /\ index_start \in IndexStarts
    /\ n_bars \in 0..MaxBars
    /\ take_profit_pips = 10
    /\ stop_loss_pips \in StopLossChoices
    /\ cost_per_trade_pips \in CostChoices
    /\ initial_equity \in StatsInitialEquityChoices
    /\ CallStarts
    /\ AuxStarts

StatsStrategyStep ==
    /\ engine = "backtest_strategy" /\ pc = "loop" /\ pos < n_bars
    /\ \E r \in StatsRows, s \in StatsSignals : BacktestStrategyBar(r, s)
    /\ UNCHANGED aux

StatsNoSlStep ==
    /\ engine = "backtest_strategy_no_sl" /\ pc = "loop" /\ pos < n_bars
    /\ \E r \in StatsRows, s \in StatsSignals : BacktestNoSlBar(r, s)
    /\ UNCHANGED aux

StatsDualStep ==
    /\ engine = "backtest_dual_market_open" /\ pc = "loop" /\ pos < n_bars
    /\ \E r \in StatsRows, sr \in StatsSignalRows : BacktestDualBar(r, sr)
    /\ UNCHANGED aux

\* stats = result.get_summary_stats() on the result the engine returned
GetSummaryStats ==
    /\ pc = "done" /\ stats = NoStats
    /\ stats' = get_summary_stats(BacktestResult(trades, equity_curve))
    /\ UNCHANGED <<params, pc, pos, row, signal, signal_row, trades, equity_curve,
                   current_equity, open_position, signals_seen, positions_opened,
                   run, inputs, first_result, live>>

NextStats ==
    \/ StatsStrategyStep
    \/ StatsNoSlStep
    \/ StatsDualStep
    \/ ReturnResult
    \/ ReturnDualResult
    \/ GetSummaryStats

SpecStats == InitStats /\ [][NextStats]_vars

\* get_summary_stats has returned a dict
StatsReturned == stats # NoStats /\ ~stats.raised

\* ------------------------------------------------------------------- C12
\* the sum of the winning pips and of the losing pips of the result
C12_WinningPips == SumPips(SelectSeq(trades, LAMBDA t : t.pips > 0))
C12_LosingPips == SumPips(SelectSeq(trades, LAMBDA t : t.pips < 0))
C12_Wins == Cardinality({k \in 1..Len(trades) : trades[k].pips > 0})

\* C12: profit_factor is sum(winning pips) / abs(sum(losing pips)), +infinity when
\* there are winning trades and no losses; for an empty trade list profit_factor
\* and win_rate are 0.0; otherwise win_rate is 100 * count(pips > 0) / count(trades).
C12_ProfitFactorAndWinRate ==
    StatsReturned =>
        /\ trades = <<>> => stats.profit_factor = Zero /\ stats.win_rate = Zero
        /\ trades # <<>> =>
              /\ Finite(stats.win_rate)
              /\ stats.win_rate.num * Len(trades) = 100 * C12_Wins * stats.win_rate.den
        /\ C12_LosingPips # 0 =>
              /\ Finite(stats.profit_factor)
              /\ stats.profit_factor.num * Abs(C12_LosingPips)
                    = C12_WinningPips * stats.profit_factor.den
        /\ (C12_WinningPips > 0 /\ C12_LosingPips = 0) => stats.profit_factor = Inf

\* one winning trade of 8 pips next to one break-even trade: no losses
C12_Witness ==
    /\ StatsReturned /\ Len(trades) = 2
    /\ C12_WinningPips = 8 /\ C12_LosingPips = 0
    /\ stats.profit_factor = Inf /\ stats.win_rate = Frac(50, 1)

\* ------------------------------------------------------------------- C13
\* C13: the drawdown is never positive, and max_drawdown_pips is the deepest
\* decline of the equity below its running maximum divided by 10, so that a single
\* losing trade of p pips below the peak reports p pips.
C13_DrawdownInPips ==
    (StatsReturned /\ equity_curve # <<>>) =>
        /\ \A k \in 1..Len(equity_curve) : drawdown(equity_curve)[k] <= 0
        /\ stats.max_drawdown_pips * 10 = Abs(SeqMin(drawdown(equity_curve)))
        /\ (Len(trades) = 1 /\ trades[1].pips < 0 /\ trades[1].date > index_start) =>
              stats.max_drawdown_pips = 0 - trades[1].pips

\* ------------------------------------------------------------------- C20
\* every number of the dict is finite, but for a profit factor of +infinity
C20_AllFinite ==
    /\ \A f \in {"avg_pips_per_trade", "avg_pips_per_day", "win_rate", "avg_win",
                 "avg_loss", "max_drawdown_pct"} : Finite(stats[f])
    /\ Finite(stats.sharpe.square) /\ Finite(stats.sharpe_annualized.square)
    /\ Finite(stats.profit_factor) \/ stats.profit_factor = Inf

\* C20: get_summary_stats returns for every result an engine produces, zero trades
\* and zero bars included, no number of the dict comes out of a division by zero,
\* and max_drawdown_pct is 0 whenever the peak equity at the deepest drawdown is
\* zero or negative.
C20_NoDivisionByZero ==
    /\ stats # NoStats => ~stats.raised
    /\ StatsReturned =>
          /\ C20_AllFinite
          /\ (equity_curve # <<>> /\ PeakAtMaxDrawdown(equity_curve) <= 0) =>
                stats.max_drawdown_pct = Zero

\* a result with a trade whose equity declined from a peak of 0
C20_Witness ==
    /\ StatsReturned /\ trades # <<>>
    /\ PeakAtMaxDrawdown(equity_curve) = 0
    /\ SeqMin(drawdown(equity_curve)) < 0
    /\ stats.max_drawdown_pct = Zero

\* ------------------------------------------------- an engine called twice
\* The caller calls the engine, keeps the result, and calls it again with the same
\* arguments: the second call reads the bars and signals the first call read.
\* The engines reindex into a new object and only read df, so the arguments are
\* the same objects with the same content in both calls.

\* variant: the equity is kept in a place that outlives the call
FreshLocals_KeepsEquity(eq) ==
    [trades |-> <<>>, equity_curve |-> <<>>, current_equity |-> eq,
     open_position |-> NoPosition]

\* trades = [], equity_curve = [], current_equity = initial_equity (and
\* open_position = None) at the top of each call; eq is the equity the previous
\* call ended with
FreshLocals(eq) ==
    [trades |-> <<>>, equity_curve |-> <<>>, current_equity |-> initial_equity,
     open_position |-> NoPosition]

\* the bar and signal an iteration may read: anything in the first call, what the
\* first call read at this position in the second
Reads(in) == run = 2 => in = inputs[pos + 1]

\* the inputs read so far, as the first call records them
Logged(in) == IF run = 1 THEN Append(inputs, in) ELSE inputs

RerunStrategyStep ==
    /\ engine = "backtest_strategy" /\ pc = "loop" /\ pos < n_bars
    /\ \E r \in StatsRows, s \in StatsSignals :
         /\ Reads([bar |-> r, sig |-> s])
         /\ BacktestStrategyBar(r, s)
         /\ inputs' = Logged([bar |-> r, sig |-> s])
    /\ UNCHANGED <<run, first_result, stats, live>>

RerunNoSlStep ==
    /\ engine = "backtest_strategy_no_sl" /\ pc = "loop" /\ pos < n_bars
    /\ \E r \in StatsRows, s \in StatsSignals :
         /\ Reads([bar |-> r, sig |-> s])
         /\ BacktestNoSlBar(r, s)
         /\ inputs' = Logged([bar |-> r, sig |-> s])
    /\ UNCHANGED <<run, first_result, stats, live>>

RerunDualStep ==
    /\ engine = "backtest_dual_market_open" /\ pc = "loop" /\ pos < n_bars
    /\ \E r \in StatsRows, sr \in StatsSignalRows :
         /\ Reads([bar |-> r, sig |-> sr])
         /\ BacktestDualBar(r, sr)
         /\ inputs' = Logged([bar |-> r, sig |-> sr])
    /\ UNCHANGED <<run, first_result, stats, live>>

\* the caller keeps the first result and calls the engine again
CallAgain ==
    /\ run = 1 /\ pc = "done"
    /\ run' = 2
    /\ first_result' = [trades |-> trades, equity_curve |-> equity_curve, returned |-> TRUE]
    /\ LET fresh == FreshLocals(current_equity)
       IN  /\ trades' = fresh.trades
           /\ equity_curve' = fresh.equity_curve
           /\ current_equity' = fresh.current_equity
           /\ open_position' = fresh.open_position
    /\ pc' = "loop"
    /\ pos' = 0
    /\ row' = NoRow
    /\ signal' = "none"
    /\ signal_row' = NoSignalRow
    /\ signals_seen' = {}
    /\ positions_opened' = 0
    /\ UNCHANGED <<params, inputs, stats, live>>

NextRerun ==
    \/ RerunStrategyStep
    \/ RerunNoSlStep
    \/ RerunDualStep
    \/ ReturnResult
    \/ ReturnDualResult
    \/ CallAgain

SpecRerun == InitStats /\ [][NextRerun]_vars

LiveSignals == {"long", "short", "flat"}
Markets == {"eur", "us"}
Feeds == {"ok", "no_data", "no_price"}
None == "None"
OrderResult == "order_result"

\* the fields of the TradingEngine object
Engine ==
    [trades_today |-> trades_today, last_trade_date |-> last_trade_date,
     eur_trade_today |-> eur_trade_today, us_trade_today |-> us_trade_today]

\* the fields of the object after a call
SetEngine(e) ==
    /\ trades_today' = e.trades_today
    /\ last_trade_date' = e.last_trade_date
    /\ eur_trade_today' = e.eur_trade_today
    /\ us_trade_today' = e.us_trade_today

\* variant: a new day resets the counter but not the session flags
has_traded_today_KeepsFlags(e, now) ==
    IF e.last_trade_date # now
    THEN [eng |-> [e EXCEPT !.trades_today = 0, !.last_trade_date = now], ret |-> FALSE]
    ELSE [eng |-> e, ret |-> e.trades_today >= MAX_DAILY_TRADES]

\* has_traded_today called at the date now: the object afterwards and the value returned
has_traded_today(e, now) ==
    IF e.last_trade_date # now
    THEN [eng |-> [e EXCEPT !.trades_today = 0, !.last_trade_date = now,
                            !.eur_trade_today = FALSE, !.us_trade_today = FALSE],
          ret |-> FALSE]
    ELSE [eng |-> e, ret |-> e.trades_today >= MAX_DAILY_TRADES]

\* check_open_positions: the number of trades on INSTRUMENT in the broker's
\* answer; the empty list when the request fails
check_open_positions(bt, answers) == IF answers THEN bt[INSTRUMENT] ELSE 0

\* variant: the order is placed without asking the broker for open trades
execute_trade_NoSafeguard(e, bt, sig, now, later, answers, accepted) ==
    IF sig = "flat"
    THEN [eng |-> e, bt |-> bt, ret |-> None, placed |-> FALSE]
    ELSE LET h == has_traded_today(e, now)
         IN  IF h.ret
             THEN [eng |-> h.eng, bt |-> bt, ret |-> None, placed |-> FALSE]
             ELSE IF accepted
             THEN [eng |-> [h.eng EXCEPT !.trades_today = @ + 1, !.last_trade_date = later],
                   bt |-> [bt EXCEPT ![INSTRUMENT] = @ + 1],
                   ret |-> OrderResult, placed |-> TRUE]
             ELSE [eng |-> h.eng, bt |-> bt, ret |-> None, placed |-> FALSE]

\* variant: the order is placed whatever the number of trades made today
execute_trade_NoDailyLimit(e, bt, sig, now, later, answers, accepted) ==
    IF sig = "flat"
    THEN [eng |-> e, bt |-> bt, ret |-> None, placed |-> FALSE]
    ELSE LET h == has_traded_today(e, now)
         IN  IF check_open_positions(bt, answers) > 0
             THEN [eng |-> h.eng, bt |-> bt, ret |-> None, placed |-> FALSE]
             ELSE IF accepted
             THEN [eng |-> [h.eng EXCEPT !.trades_today = @ + 1, !.last_trade_date = later],
                   bt |-> [bt EXCEPT ![INSTRUMENT] = @ + 1],
                   ret |-> OrderResult, placed |-> TRUE]
             ELSE [eng |-> h.eng, bt |-> bt, ret |-> None, placed |-> FALSE]

\* execute_trade(signal, price_info) called at the date now: the object and the
\* broker's trades afterwards, the value returned, and whether an order was placed.
\* `answers`: the open-trades request succeeds; `accepted`: place_market_order
\* returns; `later`: the date read after the order was placed.
execute_trade(e, bt, sig, now, later, answers, accepted) ==
    IF sig = "flat"
    THEN [eng |-> e, bt |-> bt, ret |-> None, placed |-> FALSE]
    ELSE LET h == has_traded_today(e, now)
         IN  IF h.ret
             THEN [eng |-> h.eng, bt |-> bt, ret |-> None, placed |-> FALSE]
             ELSE IF check_open_positions(bt, answers) > 0
             THEN [eng |-> h.eng, bt |-> bt, ret |-> None, placed |-> FALSE]
             ELSE IF sig \notin {"long", "short"}
             THEN [eng |-> h.eng, bt |-> bt, ret |-> None, placed |-> FALSE]
             ELSE IF MAX_POSITION_SIZE # 0 /\ POSITION_SIZE > MAX_POSITION_SIZE
             THEN [eng |-> h.eng, bt |-> bt, ret |-> None, placed |-> FALSE]
             ELSE IF accepted
             THEN [eng |-> [h.eng EXCEPT !.trades_today = @ + 1, !.last_trade_date = later],
                   bt |-> [bt EXCEPT ![INSTRUMENT] = @ + 1],
                   ret |-> OrderResult, placed |-> TRUE]
             ELSE [eng |-> h.eng, bt |-> bt, ret |-> None, placed |-> FALSE]

\* variant: the session flag is set once execute_trade has been called
try_market_open_trade_FlagsAttempt(e, bt, market, feed, sig, now, later, answers1, answers2, accepted) ==
    IF feed # "ok"
    THEN [eng |-> e, bt |-> bt, ret |-> None, placed |-> FALSE]
    ELSE LET h == has_traded_today(e, now)
         IN  IF h.ret \/ check_open_positions(bt, answers1) > 0 \/ sig = "flat"
             THEN [eng |-> h.eng, bt |-> bt, ret |-> None, placed |-> FALSE]
             ELSE LET x == execute_trade(h.eng, bt, sig, now, later, answers2, accepted)
                  IN  [x EXCEPT !.eng = IF market = "eur"
                                        THEN [x.eng EXCEPT !.eur_trade_today = TRUE]
                                        ELSE [x.eng EXCEPT !.us_trade_today = TRUE]]

\* _try_market_open_trade(market): data and price are fetched first, then the two
\* safeguards, then execute_trade for a signal that is not flat; the session flag
\* is set when execute_trade returned an order result
try_market_open_trade(e, bt, market, feed, sig, now, later, answers1, answers2, accepted) ==
    IF feed # "ok"
    THEN [eng |-> e, bt |-> bt, ret |-> None, placed |-> FALSE]
    ELSE LET h == has_traded_today(e, now)
         IN  IF h.ret \/ check_open_positions(bt, answers1) > 0 \/ sig = "flat"
             THEN [eng |-> h.eng, bt |-> bt, ret |-> None, placed |-> FALSE]
             ELSE LET x == execute_trade(h.eng, bt, sig, now, later, answers2, accepted)
                  IN  IF x.ret # None
                      THEN [x EXCEPT !.eng = IF market = "eur"
                                             THEN [x.eng EXCEPT !.eur_trade_today = TRUE]
                                             ELSE [x.eng EXCEPT !.us_trade_today = TRUE]]
                      ELSE x

\* the dates the clock may show when it is read again within a call
Later == {d \in {today, today + 1} : d <= MaxDays}

\* the backtest side is idle
Idle ==
    UNCHANGED <<params, pc, pos, row, signal, signal_row, trades, equity_curve,
                current_equity, open_position, signals_seen, positions_opened,
                run, inputs, first_result, stats>>

\* engine.has_traded_today()
HasTradedToday ==
    /\ LET h == has_traded_today(Engine, today)
       IN  /\ SetEngine(h.eng)
           /\ call' = [op |-> "has_traded_today", pre |-> Engine, now |-> today,
                       ret |-> h.ret]
    /\ UNCHANGED <<today, broker_trades, orders_placed>>
    /\ UNCHANGED <<hour, ordered, retry>>
    /\ Idle

\* engine.execute_trade(signal, price_info)
ExecuteTrade ==
    /\ \E sig \in LiveSignals, answers \in BOOLEAN, accepted \in BOOLEAN, later \in Later :
         LET x == execute_trade(Engine, broker_trades, sig, today, later, answers, accepted)
         IN  /\ SetEngine(x.eng)
             /\ broker_trades' = x.bt
             /\ orders_placed' = IF x.placed THEN orders_placed + 1 ELSE orders_placed
             /\ today' = IF x.placed THEN later ELSE today
             /\ call' = [op |-> "execute_trade", signal |-> sig, pre |-> Engine,
                         now |-> today, orders_before |-> orders_placed,
                         open_reported |-> check_open_positions(broker_trades, answers),
                         answered |-> answers, open_before |-> broker_trades[INSTRUMENT],
                         ret |-> x.ret, placed |-> x.placed]
    /\ UNCHANGED <<hour, ordered, retry>>
    /\ Idle

\* engine._try_market_open_trade(market)
TryMarketOpenTrade ==
    /\ \E market \in Markets, feed \in Feeds, sig \in LiveSignals, later \in Later,
          answers1 \in BOOLEAN, answers2 \in BOOLEAN, accepted \in BOOLEAN :
         LET x == try_market_open_trade(Engine, broker_trades, market, feed, sig, today,
                                        later, answers1, answers2, accepted)
         IN  /\ SetEngine(x.eng)
             /\ broker_trades' = x.bt
             /\ orders_placed' = IF x.placed THEN orders_placed + 1 ELSE orders_placed
             /\ today' = IF x.placed THEN later ELSE today
             /\ call' = [op |-> "_try_market_open_trade", market |-> market,
                         signal |-> sig, pre |-> Engine, now |-> today,
                         orders_before |-> orders_placed,
                         ret |-> x.ret, placed |-> x.placed]
    /\ UNCHANGED <<hour, ordered, retry>>
    /\ Idle

\* midnight UTC passes
Tick ==
    /\ today < MaxDays
    /\ today' = today + 1
    /\ UNCHANGED <<trades_today, last_trade_date, eur_trade_today, us_trade_today,
                   broker_trades, orders_placed, call>>
    /\ UNCHANGED <<hour, ordered, retry>>
    /\ Idle

\* the broker closes a trade: its take-profit is filled, or the account holder closes it
BrokerClosesTrade ==
    /\ \E ins \in Instruments :
         /\ broker_trades[ins] > 0
         /\ broker_trades' = [broker_trades EXCEPT ![ins] = @ - 1]
    /\ UNCHANGED <<trades_today, last_trade_date, eur_trade_today, us_trade_today,
                   today, orders_placed, call>>
    /\ UNCHANGED <<hour, ordered, retry>>
    /\ Idle

\* a trade is opened on the account from outside the engine
OtherTradeOpens ==
    /\ \E ins \in Instruments :
         /\ broker_trades[ins] = 0
         /\ broker_trades' = [broker_trades EXCEPT ![ins] = 1]
    /\ UNCHANGED <<trades_today, last_trade_date, eur_trade_today, us_trade_today,
                   today, orders_placed, call>>
    /\ UNCHANGED <<hour, ordered, retry>>
    /\ Idle

InitLive ==
    /\ engine = "none"
    /\ index_start = 0
    /\ n_bars = 0
    /\ take_profit_pips = 10
    /\ stop_loss_pips = 10
    /\ cost_per_trade_pips = 2
    /\ initial_equity = 10000
    /\ CallStarts
    /\ AuxStarts

NextLive ==
    \/ HasTradedToday
    \/ ExecuteTrade
    \/ TryMarketOpenTrade
    \/ Tick
    \/ BrokerClosesTrade
    \/ OtherTradeOpens

SpecLive == InitLive /\ [][NextLive]_vars

\* ------------------------------------------------------------------- C18
\* the last call was execute_trade with a flat signal, or with the daily maximum
\* already reached on the date of the call, or with the broker reporting an open
\* trade on the instrument
C18_Blocked ==
    /\ call.op = "execute_trade"
    /\ \/ call.signal = "flat"
       \/ call.pre.last_trade_date = call.now /\ call.pre.trades_today >= MAX_DAILY_TRADES
       \/ call.open_reported >= 1

\* C18: execute_trade places no market order and returns None when the signal is
\* flat, when trades_today has reached MAX_DAILY_TRADES on the current UTC date, or
\* when the broker reports an open trade on the instrument; trades_today is not
\* incremented.
C18_NoOrderWhenBlocked ==
    C18_Blocked =>
        /\ call.ret = None /\ ~call.placed
        /\ orders_placed = call.orders_before
        /\ trades_today <= call.pre.trades_today

\* a directional call on a day with one trade made, stopped by an open trade
C18_Witness ==
    /\ C18_Blocked /\ call.signal = "long" /\ call.open_reported >= 1
    /\ call.pre.trades_today = 1 /\ call.pre.last_trade_date = call.now
    /\ trades_today = 1 /\ call.ret = None

\* ------------------------------------------------------------------- C19
\* C19: has_traded_today called on a UTC date different from last_trade_date resets
\* trades_today to 0, clears both session flags, sets last_trade_date to the
\* current date and returns False; called on the same date it changes nothing and
\* returns True exactly when trades_today >= MAX_DAILY_TRADES.
C19_DailyReset ==
    call.op = "has_traded_today" =>
        IF call.pre.last_trade_date # call.now
        THEN /\ trades_today = 0
             /\ ~eur_trade_today /\ ~us_trade_today
             /\ last_trade_date = call.now
             /\ call.ret = FALSE
        ELSE /\ Engine = call.pre
             /\ call.ret <=> (call.pre.trades_today >= MAX_DAILY_TRADES)

\* the call on the day after a day on which both sessions traded
C19_Witness ==
    /\ call.op = "has_traded_today"
    /\ call.pre.last_trade_date \notin {NoDate, call.now}
    /\ call.pre.trades_today = MAX_DAILY_TRADES
    /\ call.pre.eur_trade_today /\ call.pre.us_trade_today
    /\ trades_today = 0 /\ ~eur_trade_today /\ last_trade_date = today

\* ------------------------------------------------------------------- C21
\* the trade t recorded for the bar of the last iteration stems from the given
\* session of that bar: its tag, entry price and direction are the session's
C21_StemsFrom(t, tag, sig, price) ==
    t.session = tag =>
        /\ SessionSignal(sig, price)
        /\ t.entry_price = val(price)
        /\ t.direction = sig

\* C21: every trade of the dual engine is tagged EUR or US, has the reference open
\* price and the signal direction of that session on its bar, and is dated with the
\* bar on which its position was opened, for TP and EOD closures alike.
C21_TaggedWithSession ==
    (Dual /\ Iterated) =>
        /\ \A k \in 1..Len(trades) :
              /\ trades[k].session \in {"EUR", "US"}
              /\ trades[k].date \in (index_start + 0)..row.Date
        /\ \A k \in 1..Len(BarTrades) :
              LET t == BarTrades[k]
              IN  /\ t.exit_reason \in {"TP", "EOD"}
                  /\ C21_StemsFrom(t, "EUR", signal_row.eur_signal, signal_row.eur_open_price)
                  /\ C21_StemsFrom(t, "US", signal_row.us_signal, signal_row.us_open_price)

\* a bar with an EUR trade closed by take-profit and a US trade of the other
\* direction closed at end of day
C21_Witness ==
    /\ Dual /\ Iterated /\ Len(BarTrades) = 2
    /\ BarTrades[1].session = "EUR" /\ BarTrades[1].exit_reason = "TP"
    /\ BarTrades[2].session = "US" /\ BarTrades[2].exit_reason = "EOD"
    /\ BarTrades[1].direction # BarTrades[2].direction
    /\ BarTrades[1].entry_price # BarTrades[2].entry_price

\* ------------------------------------------------------------------- C24
\* between two bars and after the loop the slot is empty, every position opened so
\* far has been closed into a trade, and the trades of the bar just processed were
\* entered on it
C24_SlotEmptyBetweenBars ==
    Dual =>
        /\ open_position = NoPosition
        /\ Len(trades) = positions_opened
        /\ \A k \in 1..Len(trades) : \E j \in 1..pos : trades[k].date = Label(j)
        /\ Iterated => Len(TradesThrough(row.Date)) = Len(trades)

\* the block after the loop appends no trade and leaves the equity curve as it is
C24_AfterLoopRecordsNothing ==
    ReturnDualResult => (trades' = trades /\ equity_curve' = equity_curve)

\* C24: in the dual engine no position survives a bar boundary: the slot is empty
\* before and after every bar, every trade opens and closes on one bar, and the
\* force-close block after the loop never records a trade.
C24_NoPositionAcrossBars ==
    []C24_SlotEmptyBetweenBars /\ [][C24_AfterLoopRecordsNothing]_vars

\* a returned run whose two bars both opened and closed a position
C24_Witness ==
    /\ Dual /\ pc = "done" /\ n_bars = 2 /\ index_start = 1
    /\ TradesOn(1) # <<>> /\ TradesOn(2) # <<>>
    /\ trades[Len(trades)].exit_reason = "EOD"
    /\ open_position = NoPosition

\* ------------------------------------------------------------------- C25
\* C25: in the dual engine each bar produces at most two trades; when it produces
\* two, the first is an EUR trade closed by take-profit and the second a US trade;
\* the trade list is ordered by date, EUR before US inside a bar.
C25_AtMostTwoPerBar ==
    Dual =>
        /\ \A j \in 1..pos :
              LET bt == TradesOn(Label(j))
              IN  /\ Len(bt) <= 2
                  /\ Len(bt) = 2 =>
                        /\ bt[1].session = "EUR" /\ bt[1].exit_reason = "TP"
                        /\ bt[2].session = "US"
        /\ \A j \in 1..Len(trades) : \A k \in (j + 1)..Len(trades) :
              /\ trades[j].date <= trades[k].date
              /\ trades[j].date = trades[k].date =>
                    trades[j].session = "EUR" /\ trades[k].session = "US"

\* a run of two bars with two trades on the first and one on the second
C25_Witness ==
    /\ Dual /\ pos = 2 /\ index_start = 1
    /\ Len(TradesOn(1)) = 2 /\ Len(TradesOn(2)) = 1
    /\ TradesOn(2)[1].exit_reason = "TP"

\* ------------------------------------ dual engine against no-SL engine
\* backtest_strategy_no_sl is called on a frame and a signal series; then
\* backtest_dual_market_open is called on the same frame with a signal frame
\* whose eur_signal is that series, whose eur_open_price is the Open of each bar
\* and whose us_signal is flat.

\* bars that open at different prices, some reaching the take-profit price
\* exactly, some not at all
RefineRows ==
    {ScenarioTpRow, ScenarioAdverseRow, BreakEvenRow,
     [Open |-> 115900, High |-> 116100, Low |-> 115900, Close |-> 116100],
     [Open |-> 116100, High |-> 116100, Low |-> 115900, Close |-> 115900],
     [Open |-> 116100, High |-> 116100, Low |-> 116100, Close |-> 116100]}

\* the row of the signal frame built from the signal s for the bar r
EurOnlySignalRow(r, s, us_price) ==
    [eur_signal |-> s, us_signal |-> "flat",
     eur_open_price |-> Price(r.Open), us_open_price |-> us_price]

InitRefine ==
    /\ engine = "backtest_strategy_no_sl"
    /\ index_start \in IndexStarts
    /\ n_bars \in 0..MaxBars
    /\ take_profit_pips \in TakeProfitChoices(engine)
    /\ stop_loss_pips \in StopLossChoices
    /\ cost_per_trade_pips \in CostChoices
    /\ initial_equity \in InitialEquityChoices
    /\ CallStarts
    /\ AuxStarts

RefineNoSlStep ==
    /\ engine = "backtest_strategy_no_sl" /\ pc = "loop" /\ pos < n_bars
    /\ \E r \in RefineRows, s \in SignalValues :
         /\ BacktestNoSlBar(r, s)
         /\ inputs' = Append(inputs, [bar |-> r, sig |-> s])
    /\ UNCHANGED <<run, first_result, stats, live>>

\* the caller keeps the result of the no-SL engine and calls the dual engine with
\* the same take-profit, cost and initial equity
CallDualEngine ==
    /\ engine = "backtest_strategy_no_sl" /\ pc = "done"
    /\ engine' = "backtest_dual_market_open"
    /\ run' = 2
    /\ first_result' = [trades |-> trades, equity_curve |-> equity_curve, returned |-> TRUE]
    /\ LET fresh == FreshLocals(current_equity)
       IN  /\ trades' = fresh.trades
           /\ equity_curve' = fresh.equity_curve
           /\ current_equity' = fresh.current_equity
           /\ open_position' = fresh.open_position
    /\ pc' = "loop"
    /\ pos' = 0
    /\ row' = NoRow
    /\ signal' = "none"
    /\ signal_row' = NoSignalRow
    /\ signals_seen' = {}
    /\ positions_opened' = 0
    /\ UNCHANGED <<index_start, n_bars, take_profit_pips, stop_loss_pips,
                   cost_per_trade_pips, initial_equity, inputs, stats, live>>

RefineDualStep ==
    /\ engine = "backtest_dual_market_open" /\ pc = "loop" /\ pos < n_bars
    /\ \E us_price \in UsOpenPrices :
         LET in == inputs[pos + 1]
         IN  BacktestDualBar(in.bar, EurOnlySignalRow(in.bar, in.sig, us_price))
    /\ UNCHANGED aux

NextRefine ==
    \/ RefineNoSlStep
    \/ ReturnResult
    \/ CallDualEngine
    \/ RefineDualStep
    \/ ReturnDualResult

SpecRefine == InitRefine /\ [][NextRefine]_vars

\* ------------------------------------------------------------------- C26
\* the fields of a trade that both engines record
C26_Fields(t) ==
    [date |-> t.date, direction |-> t.direction, entry_price |-> t.entry_price,
     exit_price |-> t.exit_price, exit_reason |-> t.exit_reason, pips |-> t.pips,
     tp_hit |-> t.tp_hit]

\* C26: the dual engine called with eur_signal = s, eur_open_price = each bar's
\* Open and a flat us_signal returns the trades (date, direction, entry price,
\* exit price, exit_reason, pips, tp_hit) and the equity curve that
\* backtest_strategy_no_sl returns for the signals s with the same take-profit,
\* cost and initial equity; bar by bar its equity points are the no-SL points.
C26_DualRefinesNoSl ==
    (Dual /\ run = 2) =>
        /\ \A k \in 1..Len(equity_curve) : equity_curve[k] = first_result.equity_curve[k]
        /\ \A k \in 1..Len(trades) :
              /\ k <= Len(first_result.trades)
              /\ C26_Fields(trades[k]) = C26_Fields(first_result.trades[k])
        /\ pc = "done" =>
              /\ Len(trades) = Len(first_result.trades)
              /\ equity_curve = first_result.equity_curve

\* both engines returned two trades, one closed by take-profit and one at end of
\* day, on bars that open at different prices
C26_Witness ==
    /\ Dual /\ run = 2 /\ pc = "done"
    /\ Len(trades) = 2 /\ Len(first_result.trades) = 2
    /\ trades[1].exit_reason = "TP" /\ trades[2].exit_reason = "EOD"
    /\ trades[1].entry_price # trades[2].entry_price
    /\ trades[1].direction # trades[2].direction

\* ------------------------------------------------------------------- C22
\* the flag of a session in an engine object
C22_Flag(e, market) == IF market = "eur" THEN e.eur_trade_today ELSE e.us_trade_today

C22_Other(market) == IF market = "eur" THEN "us" ELSE "eur"

\* C22: _try_market_open_trade(market) sets the flag of that market to True exactly
\* when execute_trade returned a result in this call; on every other outcome (no
\* data, no price, daily limit, open position, flat signal, order failure) it sets
\* no flag, and it never sets the flag of the other market.
C22_FlagIffOrderResult ==
    call.op = "_try_market_open_trade" =>
        /\ call.ret # None => C22_Flag(Engine, call.market)
        /\ call.ret = None =>
              (C22_Flag(Engine, call.market) => C22_Flag(call.pre, call.market))
        /\ C22_Flag(Engine, C22_Other(call.market)) => C22_Flag(call.pre, C22_Other(call.market))
        /\ call.ret # None <=> call.placed

\* a US call that placed an order on a day on which the EUR session had traded
C22_Witness ==
    /\ call.op = "_try_market_open_trade" /\ call.market = "us"
    /\ call.ret # None /\ call.pre.last_trade_date = call.now
    /\ call.pre.eur_trade_today /\ ~call.pre.us_trade_today
    /\ eur_trade_today /\ us_trade_today

\* ------------------------------------------------------------------- C28
\* C28: execute_trade places a market order only if the open-trades query of the
\* same call succeeded and reported no open trade; when the query fails no order is
\* placed, so no order is sent while a trade on the instrument is open at the broker.
C28_FailsClosed ==
    (call.op = "execute_trade" /\ call.placed) =>
        /\ call.answered
        /\ call.open_reported = 0
        /\ call.open_before = 0

\* --------------------------------------------- the polls of run_once
\* run_continuous calls run_once once a minute.  The clock is kept as the date and
\* the hour; the hours that matter with DUAL_MARKET_OPEN_ENABLED are the two
\* session hours and one hour outside both windows.
Hours == {0, EUR_MARKET_OPEN_HOUR, US_MARKET_OPEN_HOUR}

\* the next hour of Hours, 24 after the last one
NextHour(h) ==
    IF \E g \in Hours : g > h
    THEN CHOOSE g \in Hours : g > h /\ \A f \in Hours : f > h => g <= f
    ELSE 24

check_eur_market_open(h) == h = 8
check_us_market_open(h) == h = 13

check_trading_hours(h) ==
    IF TRADING_START_HOUR <= TRADING_END_HOUR
    THEN TRADING_START_HOUR <= h /\ h <= TRADING_END_HOUR
    ELSE h >= TRADING_START_HOUR \/ h <= TRADING_END_HOUR

Nothing(e, bt) == [eng |-> e, bt |-> bt, ret |-> None, placed |-> FALSE]

\* _run_single_daily_open: inside the trading hours, with a price and no open
\* trade reported, a signal that is not flat goes to execute_trade; `in` holds the
\* answers of the feed and the broker to the requests of the poll
run_single_daily_open(e, bt, h, now, later, in) ==
    IF ~check_trading_hours(h) \/ in.feed # "ok"
    THEN Nothing(e, bt)
    ELSE IF check_open_positions(bt, in.answers1) > 0 \/ in.sig = "flat"
    THEN Nothing(e, bt)
    ELSE execute_trade(e, bt, in.sig, now, later, in.answers2, in.accepted)

\* the block of _run_dual_market_open for one session whose hour it is:
\* skipped when the flag of the session is set or an open trade is reported
session_block(e, bt, market, flag, now, later, in) ==
    IF flag
    THEN Nothing(e, bt)
    ELSE IF check_open_positions(bt, in.answers0) > 0
    THEN Nothing(e, bt)
    ELSE try_market_open_trade(e, bt, market, in.feed, in.sig, now, later, in.answers1,
                               in.answers2, in.accepted)

\* _run_dual_market_open at the hour h
run_dual_market_open(e, bt, h, now, later, in) ==
    LET eur == IF check_eur_market_open(h)
               THEN session_block(e, bt, "eur", e.eur_trade_today, now, later, in)
               ELSE Nothing(e, bt)
    IN  IF check_us_market_open(h)
        THEN session_block(eur.eng, eur.bt, "us", eur.eng.us_trade_today, now, later, in)
        ELSE eur

\* run_once at the hour h
run_once(e, bt, h, now, later, in) ==
    IF DUAL_MARKET_OPEN_ENABLED
    THEN run_dual_market_open(e, bt, h, now, later, in)
    ELSE run_single_daily_open(e, bt, h, now, later, in)

\* the session whose hour it is
SessionAt(h) ==
    IF check_eur_market_open(h) THEN "eur"
    ELSE IF check_us_market_open(h) THEN "us" ELSE "none"

\* midnight can pass within a call only in the last hour of the day
LaterAt(h) == IF h = TRADING_END_HOUR THEN Later ELSE {today}

\* the poll asks the feed and the broker only in an hour in which it may trade
PollReads(h) ==
    IF DUAL_MARKET_OPEN_ENABLED THEN SessionAt(h) # "none" ELSE check_trading_hours(h)

\* the signals a poll computes: one directional signal stands for both
PollSignals == {"long", "flat"}

\* what the feed and the broker answer to the requests of a poll at the hour h;
\* a request the poll does not get to (after a failed feed, after a flat signal)
\* has no answer to choose
PollInputs(h) ==
    IF PollReads(h)
    THEN {in \in [feed : Feeds, sig : PollSignals, answers0 : BOOLEAN, answers1 : BOOLEAN,
                  answers2 : BOOLEAN, accepted : BOOLEAN] :
            /\ in.feed # "ok" => in.sig = "flat" /\ in.answers1
            /\ in.sig = "flat" => in.answers2 /\ in.accepted}
    ELSE {[feed |-> "ok", sig |-> "flat", answers0 |-> TRUE, answers1 |-> TRUE,
           answers2 |-> TRUE, accepted |-> TRUE]}

\* engine.run_once(): one poll of run_continuous
RunOnce ==
    /\ \E in \in PollInputs(hour), later \in LaterAt(hour) :
         LET x == run_once(Engine, broker_trades, hour, today, later, in)
             crossed == x.placed /\ later # today
         IN  /\ SetEngine(x.eng)
             /\ broker_trades' = x.bt
             /\ orders_placed' = IF x.placed THEN orders_placed + 1 ELSE orders_placed
             /\ today' = IF crossed THEN later ELSE today
             /\ hour' = IF crossed THEN 0 ELSE hour
             /\ ordered' = IF x.placed /\ SessionAt(hour) # "none"
                           THEN [ordered EXCEPT ![SessionAt(hour)] = today]
                           ELSE ordered
             /\ call' = [op |-> "run_once", hour |-> hour, signal |-> in.sig, pre |-> Engine,
                         now |-> today, orders_before |-> orders_placed,
                         open_before |-> broker_trades[INSTRUMENT],
                         ordered_before |-> ordered,
                         all_ok |-> (in.feed = "ok" /\ in.answers0 /\ in.answers1
                                     /\ in.answers2 /\ in.accepted),
                         ret |-> x.ret, placed |-> x.placed]
    /\ UNCHANGED retry
    /\ Idle

\* the clock reaches the next hour, or midnight UTC
ClockAdvances ==
    /\ IF NextHour(hour) < 24
       THEN hour' = NextHour(hour) /\ today' = today
       ELSE today < MaxDays /\ hour' = 0 /\ today' = today + 1
    /\ UNCHANGED <<trades_today, last_trade_date, eur_trade_today, us_trade_today,
                   broker_trades, orders_placed, call, ordered, retry>>
    /\ Idle

NextPoll ==
    \/ RunOnce
    \/ ClockAdvances
    \/ BrokerClosesTrade
    \/ OtherTradeOpens

\* the engine driven by run_continuous alone
SpecPoll == InitLive /\ [][NextPoll]_vars

\* ------------------------------------------------------------------- C27
\* the last call was a poll in the hour of a session that has placed no order on
\* this date, with no trade open on the instrument, a directional signal, and
\* every request to the feed and the broker succeeding
C27_SessionDue ==
    /\ call.op = "run_once"
    /\ SessionAt(call.hour) # "none"
    /\ call.ordered_before[SessionAt(call.hour)] # call.now
    /\ call.open_before = 0
    /\ call.signal \in Directional
    /\ call.all_ok

\* C27: the session flags never carry over to a later day: a poll in the 08:00 UTC
\* hour (13:00 for US) of a day on which that session has placed no order, with no
\* open position, a directional signal and all broker calls succeeding, places an
\* order, whatever polls went before.
C27_SessionTradesEachDay ==
    C27_SessionDue => call.placed /\ orders_placed = call.orders_before + 1

\* ------------------------------------------------ closing the positions
\* TradingEngine.close_eod_positions and PositionManager.close_all_positions
\* (app/services/position_manager.py) on the account of the engine.

\* the broker's open trades on one instrument, each with its id
TradesOf(bt, ins) == [k \in 1..bt[ins] |-> [id |-> <<ins, k>>, instrument |-> ins]]

\* client.get_open_trades(): all open trades of the account
get_open_trades(bt) == TradesOf(bt, "USD_JPY") \o TradesOf(bt, "EUR_USD")

\* the trades on the instrument in the broker's answer; the empty list when the
\* request fails (check_open_positions, PositionManager.get_open_positions)
get_open_positions(bt, answers) ==
    IF answers
    THEN SelectSeq(get_open_trades(bt), LAMBDA t : t.instrument = INSTRUMENT)
    ELSE <<>>

RECURSIVE close_each_StopsOnFailure(_, _, _)
\* variant: the loop ends with the first close request that fails
close_each_StopsOnFailure(positions, ok, k) ==
    IF k > Len(positions)
    THEN [requests |-> <<>>, closed_count |-> 0]
    ELSE IF ~ok[k]
    THEN [requests |-> <<positions[k].id>>, closed_count |-> 0]
    ELSE LET rest == close_each_StopsOnFailure(positions, ok, k + 1)
         IN  [requests |-> <<positions[k].id>> \o rest.requests,
              closed_count |-> rest.closed_count + 1]

RECURSIVE close_each(_, _, _)
\* the loop over the positions from the k-th on: client.close_trade(id) for each,
\* counted when it returns; ok[k] tells whether the k-th request succeeds
close_each(positions, ok, k) ==
    IF k > Len(positions)
    THEN [requests |-> <<>>, closed_count |-> 0]
    ELSE LET rest == close_each(positions, ok, k + 1)
         IN  [requests |-> <<positions[k].id>> \o rest.requests,
              closed_count |-> rest.closed_count + (IF ok[k] THEN 1 ELSE 0)]

\* the record of a closing call
Closing(name, answers, ok, out, ret) ==
    [op |-> name, answered |-> answers, open_before |-> broker_trades[INSTRUMENT],
     others_before |-> broker_trades["USD_JPY"], outcomes |-> ok,
     requests |-> out.requests,
     open_after |-> broker_trades[INSTRUMENT] - out.closed_count,
     others_after |-> broker_trades["USD_JPY"], ret |-> ret]

\* engine.close_eod_positions()
CloseEodPositions ==
    /\ \E answers \in BOOLEAN, ok \in [1..broker_trades[INSTRUMENT] -> BOOLEAN] :
         LET open_trades == get_open_positions(broker_trades, answers)
             out == close_each(open_trades, ok, 1)
         IN  /\ broker_trades' = [broker_trades EXCEPT ![INSTRUMENT] = @ - out.closed_count]
             /\ call' = Closing("close_eod_positions", answers, ok, out, None)
    /\ UNCHANGED <<trades_today, last_trade_date, eur_trade_today, us_trade_today,
                   today, orders_placed, hour, ordered, retry>>
    /\ Idle

\* PositionManager(client).close_all_positions()
CloseAllPositions ==
    /\ \E answers \in BOOLEAN, ok \in [1..broker_trades[INSTRUMENT] -> BOOLEAN] :
         LET positions == get_open_positions(broker_trades, answers)
             out == close_each(positions, ok, 1)
         IN  /\ broker_trades' = [broker_trades EXCEPT ![INSTRUMENT] = @ - out.closed_count]
             /\ call' = Closing("close_all_positions", answers, ok, out, out.closed_count)
    /\ UNCHANGED <<trades_today, last_trade_date, eur_trade_today, us_trade_today,
                   today, orders_placed, hour, ordered, retry>>
    /\ Idle

NextClose ==
    \/ ExecuteTrade
    \/ OtherTradeOpens
    \/ CloseEodPositions
    \/ CloseAllPositions

\* trades are opened by execute_trade or from outside, and closed by the two
\* closing methods
SpecClose == InitLive /\ [][NextClose]_vars

NextCalls ==
    \/ RunOnce
    \/ ExecuteTrade
    \/ ClockAdvances
    \/ BrokerClosesTrade

\* the engine polled by run_continuous, with direct calls of execute_trade in
\* between
SpecCalls == InitLive /\ [][NextCalls]_vars

\* ------------------------------------------------------------------- C23
\* the close requests of the last call that succeeded
C23_Succeeded == {k \in 1..Len(call.requests) : call.outcomes[k]}

\* C23: close_eod_positions and close_all_positions issue exactly one close request
\* for each open trade of the instrument that the broker reported and none for
\* another instrument; a failing request does not stop the remaining ones; and
\* close_all_positions returns the number of requests that succeeded.
C23_OneRequestPerTrade ==
    call.op \in {"close_eod_positions", "close_all_positions"} =>
        /\ Len(call.requests) = (IF call.answered THEN call.open_before ELSE 0)
        /\ \A j \in 1..Len(call.requests) :
              /\ call.requests[j][1] = INSTRUMENT
              /\ \A k \in 1..Len(call.requests) :
                    call.requests[j] = call.requests[k] => j = k
        /\ call.op = "close_all_positions" => call.ret = Cardinality(C23_Succeeded)
        /\ call.open_after = call.open_before - Cardinality(C23_Succeeded)
        /\ call.others_after = call.others_before

\* close_all_positions with two trades open on the instrument and one on another:
\* the first request fails, the second succeeds, and 1 is returned
C23_Witness ==
    /\ call.op = "close_all_positions" /\ call.answered
    /\ call.open_before = 2 /\ call.others_before = 1
    /\ ~call.outcomes[1] /\ call.outcomes[2]
    /\ Len(call.requests) = 2 /\ call.ret = 1
    /\ call.open_after = 1 /\ broker_trades[INSTRUMENT] = 1

\* close_eod_positions going on after a failed request
C23_EodWitness ==
    /\ call.op = "close_eod_positions" /\ call.answered
    /\ call.open_before = 2 /\ ~call.outcomes[1] /\ call.outcomes[2]
    /\ Len(call.requests) = 2 /\ call.open_after = 1

\* ------------------------------------------------------------------- C29
\* the number of session flags that are True
C29_FlagsSet == (IF eur_trade_today THEN 1 ELSE 0) + (IF us_trade_today THEN 1 ELSE 0)

\* C29: from a fresh engine, after any sequence of run_once and execute_trade
\* calls, trades_today never exceeds MAX_DAILY_TRADES, it is incremented only by a
\* call in which place_market_order returned, and the number of session flags that
\* are True never exceeds trades_today.
C29_DailyCountBounded ==
    /\ trades_today <= MAX_DAILY_TRADES
    /\ C29_FlagsSet <= trades_today
    /\ call.op \in {"run_once", "execute_trade"} =>
          /\ ~call.placed => trades_today \in {call.pre.trades_today, 0}
          /\ call.placed =>
                /\ orders_placed = call.orders_before + 1
                /\ trades_today = 1 + (IF call.pre.last_trade_date = call.now
                                       THEN call.pre.trades_today ELSE 0)

\* the second poll of a day has placed the second order: both flags are set and
\* the count is at its maximum
C29_Witness ==
    /\ call.op = "run_once" /\ call.placed /\ call.hour = US_MARKET_OPEN_HOUR
    /\ call.pre.trades_today = 1
    /\ trades_today = MAX_DAILY_TRADES /\ C29_FlagsSet = 2

\* ------------------------------------------------- app/utils/retry.py
\* retry_with_backoff(max_retries, initial_delay, backoff_factor, exceptions)
\* wrapped around a function.  Each invocation of the function returns a value,
\* raises an exception of a listed type, or raises one of another type; an
\* exception is kept with the attempt that raised it.
initial_delay == 1
backoff_factor == 2

Values == {"a", "b"}
Listed == {"ConnectionError", "Timeout"}
Unlisted == {"ValueError"}

Outcomes ==
    [kind : {"returns"}, value : Values] \cup [kind : {"raises"}, type : Listed \cup Unlisted]

\* the exception object raised by the attempt with the given number
Exception(type, attempt) == [type |-> type, attempt |-> attempt]

\* the wrapper is entered: delay = initial_delay, last_exception = None
Wrapper(n) ==
    [status |-> "running", max_retries |-> n, attempt |-> 0, delay |-> initial_delay,
     last_exception |-> None, outcomes |-> <<>>, slept |-> <<>>, result |-> None]

\* variant: the wrapper sleeps after every failed attempt, the last one too
Attempt_SleepsAfterLast(w, o) ==
    LET seen == [w EXCEPT !.outcomes = Append(@, o)]
    IN  IF o.kind = "returns"
        THEN [seen EXCEPT !.status = "returned", !.result = o.value]
        ELSE IF o.type \notin Listed
        THEN [seen EXCEPT !.status = "raised", !.result = Exception(o.type, w.attempt)]
        ELSE LET e == Exception(o.type, w.attempt)
             IN  IF w.attempt < w.max_retries
                 THEN [seen EXCEPT !.last_exception = e, !.slept = Append(@, w.delay),
                                   !.delay = @ * backoff_factor, !.attempt = @ + 1]
                 ELSE [seen EXCEPT !.last_exception = e, !.slept = Append(@, w.delay),
                                   !.status = "raised", !.result = e]

\* one pass of the loop `for attempt in range(max_retries + 1)` with the outcome o
\* of func; after the last pass the loop ends and last_exception is raised
Attempt(w, o) ==
    LET seen == [w EXCEPT !.outcomes = Append(@, o)]
    IN  IF o.kind = "returns"
        THEN [seen EXCEPT !.status = "returned", !.result = o.value]
        ELSE IF o.type \notin Listed
        THEN [seen EXCEPT !.status = "raised", !.result = Exception(o.type, w.attempt)]
        ELSE LET e == Exception(o.type, w.attempt)
             IN  IF w.attempt < w.max_retries
                 THEN [seen EXCEPT !.last_exception = e, !.slept = Append(@, w.delay),
                                   !.delay = @ * backoff_factor, !.attempt = @ + 1]
                 ELSE [seen EXCEPT !.last_exception = e, !.status = "raised", !.result = e]

\* everything but the wrapped call stands still
RetryOnly ==
    /\ UNCHANGED <<trades_today, last_trade_date, eur_trade_today, us_trade_today, today,
                   broker_trades, orders_placed, call, hour, ordered>>
    /\ Idle

\* the decorated function is called
CallWrapped ==
    /\ retry.status = "idle"
    /\ \E n \in 0..MaxRetries : retry' = Wrapper(n)
    /\ RetryOnly

\* func(*args, **kwargs) is invoked once more
RetryAttempt ==
    /\ retry.status = "running"
    /\ \E o \in Outcomes : retry' = Attempt(retry, o)
    /\ RetryOnly

NextRetry ==
    \/ CallWrapped
    \/ RetryAttempt

SpecRetry == InitLive /\ [][NextRetry]_vars

\* ------------------------------------------------------------------- C30
\* the number of invocations of the wrapped function so far
C30_Calls == Len(retry.outcomes)

C30_RaisedListed(k) ==
    retry.outcomes[k].kind = "raises" /\ retry.outcomes[k].type \in Listed

\* C30: a function wrapped by retry_with_backoff(max_retries = n), n >= 0, is
\* invoked at most n + 1 times per call; the wrapper returns the value of the first
\* attempt that does not raise a listed exception; when all n + 1 attempts raise a
\* listed exception it raises the exception of the last attempt; an exception of a
\* type that is not listed propagates at once; and it sleeps only between
\* attempts, never after the last one.
C30_RetryContract ==
    retry.status # "idle" =>
        /\ C30_Calls <= retry.max_retries + 1
        /\ \A k \in 1..(C30_Calls - 1) : C30_RaisedListed(k)
        /\ retry.status = "running" =>
              /\ C30_Calls <= retry.max_retries
              /\ \A k \in 1..C30_Calls : C30_RaisedListed(k)
              /\ Len(retry.slept) = C30_Calls
        /\ retry.status \in {"returned", "raised"} =>
              /\ C30_Calls >= 1
              /\ Len(retry.slept) = C30_Calls - 1
        /\ retry.status = "returned" =>
              /\ retry.outcomes[C30_Calls].kind = "returns"
              /\ retry.result = retry.outcomes[C30_Calls].value
        /\ retry.status = "raised" =>
              /\ retry.outcomes[C30_Calls].kind = "raises"
              /\ retry.result = Exception(retry.outcomes[C30_Calls].type, C30_Calls - 1)
              /\ C30_RaisedListed(C30_Calls) => C30_Calls = retry.max_retries + 1

\* three attempts of a call with max_retries = 2 raised listed exceptions of
\* different types: two sleeps, and the exception of the third attempt is raised
C30_Witness ==
    /\ retry.status = "raised" /\ retry.max_retries = 2 /\ C30_Calls = 3
    /\ \A k \in 1..3 : C30_RaisedListed(k)
    /\ retry.outcomes[2].type # retry.outcomes[3].type
    /\ retry.result = Exception(retry.outcomes[3].type, 2)
    /\ retry.slept = <<1, 2>>

====
